---- MODULE Spec2Model ----
(***************************************************************************)
(* Model of db-pool-rs: the MSSQL connection pool (databases/mssql/pool.rs *)
(* and connection.rs), the alert engine (utils/monitoring.rs) and the      *)
(* distributed pool manager (core/pool_manager.rs).                        *)
(*                                                                         *)
(* Three specifications share one Init:                                    *)
(*   Spec      - one MSSQLPool used by concurrent tasks                    *)
(*   SpecAlert - one AlertManager used by concurrent evaluators            *)
(*   SpecMgr   - one DistributedPoolManager used by concurrent callers     *)
(* Every async fn is cut at its await points: one action per stretch of    *)
(* code that runs without suspension (or under one held lock).             *)
(***************************************************************************)
EXTENDS Integers, Sequences, FiniteSets, TLC

\* ------------------------------------------------------------------ bounds
MaxConn == 2        \* largest max_connections tried
NumTasks == 2       \* concurrent callers of one pool
MaxCloses == 1      \* close() calls in one behaviour
MaxOps == 2         \* longest operation list of a batch / transaction
MaxOutages == 1     \* times the backend becomes unreachable

Tasks == 1..NumTasks

\* ------------------------------------------------------------- pool state
VARIABLES
    min_connections,    \* config.pool_config.min_connections
    max_connections,    \* config.pool_config.max_connections
    connections,        \* idle queue: VecDeque<MSSQLConnection>
    permits,            \* free permits of the semaphore
    total_connections,  \* the live-session counter
    backendUp,          \* whether TcpStream::connect / Client::connect succeed
    outages,            \* times the backend went down so far
    pc,                 \* position of each task in its pool operation
    kind,               \* which public operation the task runs
    nops,               \* length of its operation list
    ops,                \* the statements run so far: TRUE = the server accepts it
    conn,               \* the session the task holds
    results,            \* Vec<BatchResult> built so far: TRUE = no error
    transaction_failed, \* local flag of execute_transaction
    result,             \* what the operation returned
    fate,               \* history: what became of the session handed out
    closes,             \* history: close() calls so far
    started_after_close \* history: the task's call began after a close()

poolVars == <<min_connections, max_connections, connections, permits,
              total_connections, backendUp, outages, pc, kind, nops, ops,
              conn, results, transaction_failed, result, fate, closes,
              started_after_close>>

\* ------------------------------------------------------ alert engine state
VARIABLES
    alert_rules,    \* Vec<AlertRule>
    active_alerts,  \* Vec<Alert>
    now,            \* the clock Instant::now() reads
    apc,            \* position of each evaluator
    summary,        \* the PoolSummary it was called with
    rule_idx,       \* index of the rule its loop is at
    alone,          \* history: no other evaluation overlapped this one or ran since
    repeat,         \* history: same summary as the evaluation just before, nothing between
    prev,           \* history: summary and alerts at the end of the last evaluation
    setups          \* history: initialize_with_defaults calls so far

alertVars == <<alert_rules, active_alerts, now, apc, summary, rule_idx,
               alone, repeat, prev, setups>>

\* ---------------------------------------------------------- manager state
VARIABLES
    local_pools,         \* DashMap<String, Arc<dyn DatabasePool>>: id -> pool object
    pool_configs,        \* DashMap<String, DatabaseConfig>
    pool_health_status,  \* HealthMonitor: DashMap<String, bool>
    pool_metrics,        \* MetricsCollector: DashMap<String, PoolMetricsData>
    failover_strategy,   \* the current FailoverStrategy
    objs,                \* every pool object constructed so far
    hostUp,              \* which database hosts accept connections
    mpc,                 \* position of each caller in its manager call
    op,                  \* the manager method it called
    target,              \* the pool_id argument
    arg,                 \* the other arguments: a config, whether the SQL is valid
    pool,                \* the pool object (an Arc clone) the call holds, 0 if none
    error,               \* the pool's error being handled: "none", "Query", "PoolExhausted", "ConnectionFailed"
    outcome,             \* what the call returned
    reply,               \* the value inside an Ok of get_pool_status / get_pool_metrics / health_check
    removed,             \* history: ids whose last completed lifecycle call was a successful remove_pool
    mcalls,              \* history: manager calls issued so far
    flips,               \* history: times a host went down
    probe_tasks,         \* tasks spawned by start_monitoring that still run, per id
    tick                 \* phase of the probe tasks' interval timer

mgrVars == <<local_pools, pool_configs, pool_health_status, pool_metrics,
             failover_strategy, objs, hostUp, mpc, op, target, arg, pool,
             error, outcome, reply, removed, mcalls, flips, probe_tasks,
             tick>>

\* MSSQLConnection { client: Option<Client>, in_transaction }; alive models
\* whether the TCP session behind the client still answers.
NewConnection == [client |-> TRUE, in_transaction |-> FALSE, alive |-> TRUE]
NoConn == [client |-> FALSE, in_transaction |-> FALSE, alive |-> FALSE]

Kinds == {"execute_query", "execute_non_query", "execute_batch", "execute_transaction"}

\* operation-list lengths a caller may pass: one statement for a query or
\* non-query, any list up to MaxOps for a batch or a transaction
OpCounts(k) ==
    IF k \in {"execute_query", "execute_non_query"} THEN {1} ELSE 0..MaxOps

\* MSSQLConnection::is_valid: SELECT 1 on the client
is_valid(c) == c.client /\ c.alive

\* MSSQLConnection::query / execute: ok iff the client answers and the
\* server accepts the statement
StatementOk(c, sqlOk) == c.client /\ c.alive /\ sqlOk

\* MSSQLPool::ensure_min_connections on a reachable backend: pushes one new
\* session and adds one to the counter for each session missing below min.
RECURSIVE ensure_min_connections(_, _, _)
ensure_min_connections(queue, total, min) ==
    IF Len(queue) < min
    THEN ensure_min_connections(Append(queue, NewConnection), total + 1, min)
    ELSE [connections |-> queue, total_connections |-> total]

\* MSSQLPool::new: empty queue, counter 0, then ensure_min_connections
NewPool(min) == ensure_min_connections(<<>>, 0, min)

\* ------------------------------------------------- single-function state
VARIABLES
    input_config,       \* the DatabaseConfig handed to validate_config
    verdict             \* what validate_config returned for it

cfgVars == <<input_config, verdict>>

VARIABLES
    metrics_collector,  \* utils MetricsCollector.pool_metrics: id -> data
    pool_summary        \* what get_pool_metrics returned last

ringVars == <<metrics_collector, pool_summary>>

VARIABLES
    session,            \* one MSSQLConnection: client, in_transaction
    last_call,          \* the last method called on it and what it returned
    wire,               \* history: what the server has received from it
    session_calls       \* history: calls made on it so far

sessVars == <<session, last_call, wire, session_calls>>

unitVars == <<cfgVars, ringVars, sessVars>>

vars == <<poolVars, alertVars, mgrVars, unitVars>>

\* ------------------------------------------------------------ pool Init
PoolInitWith(min, max) ==
    /\ max_connections = max
    /\ min_connections = min
    /\ connections = NewPool(min_connections).connections
    /\ total_connections = NewPool(min_connections).total_connections
    /\ permits = max_connections
    /\ backendUp = TRUE
    /\ outages = 0
    /\ pc = [t \in Tasks |-> "idle"]
    /\ kind = [t \in Tasks |-> "execute_query"]
    /\ nops = [t \in Tasks |-> 0]
    /\ ops = [t \in Tasks |-> <<>>]
    /\ conn = [t \in Tasks |-> NoConn]
    /\ results = [t \in Tasks |-> <<>>]
    /\ transaction_failed = [t \in Tasks |-> FALSE]
    /\ result = [t \in Tasks |-> "none"]
    /\ fate = [t \in Tasks |-> "none"]
    /\ closes = 0
    /\ started_after_close = [t \in Tasks |-> FALSE]

\* every configuration with min <= max and max > 0 up to MaxConn
PoolInit == \E max \in 1..MaxConn : \E min \in 0..max : PoolInitWith(min, max)

\* ------------------------------------------------------- pool operations
\* A caller enters one of the four public operations (each task calls once).
Start(t) ==
    /\ pc[t] = "idle"
    /\ \E k \in Kinds : \E n \in OpCounts(k) :
          /\ kind' = [kind EXCEPT ![t] = k]
          /\ nops' = [nops EXCEPT ![t] = n]
    /\ pc' = [pc EXCEPT ![t] = "acquire"]
    /\ started_after_close' = [started_after_close EXCEPT ![t] = closes >= 1]
    /\ UNCHANGED <<min_connections, max_connections, connections, permits,
                   total_connections, backendUp, outages, ops, conn,
                   results, transaction_failed, result, fate, closes>>
    /\ UNCHANGED <<alertVars, mgrVars, unitVars>>

\* get_connection: semaphore.acquire() granted
Acquire(t) ==
    /\ pc[t] = "acquire"
    /\ permits > 0
    /\ permits' = permits - 1
    /\ pc' = [pc EXCEPT ![t] = "pop"]
    /\ UNCHANGED <<min_connections, max_connections, connections,
                   total_connections, backendUp, outages, kind, nops, ops, conn,
                   results, transaction_failed, result, fate, closes,
                   started_after_close>>
    /\ UNCHANGED <<alertVars, mgrVars, unitVars>>

\* get_connection: acquire_timeout elapses while no permit is free
AcquireTimeout(t) ==
    /\ pc[t] = "acquire"
    /\ permits = 0
    /\ pc' = [pc EXCEPT ![t] = "done"]
    /\ result' = [result EXCEPT ![t] = "AcquireTimeout"]
    /\ UNCHANGED <<min_connections, max_connections, connections, permits,
                   total_connections, backendUp, outages, kind, nops, ops, conn,
                   results, transaction_failed, fate, closes,
                   started_after_close>>
    /\ UNCHANGED <<alertVars, mgrVars, unitVars>>

\* where the operation goes once get_connection returned Ok
AfterBorrow(k) ==
    CASE k = "execute_query" -> "query"
      [] k = "execute_non_query" -> "execute"
      [] k = "execute_batch" -> "batch"
      [] OTHER -> "begin"

\* get_connection: under the queue's write lock, pop_front and is_valid.
\* A valid session is returned (the permit is dropped with the function's
\* scope); an invalid one is dropped and the code falls through.
Pop(t) ==
    /\ pc[t] = "pop"
    /\ IF connections # <<>>
       THEN /\ connections' = Tail(connections)
            /\ IF is_valid(Head(connections))
               THEN /\ conn' = [conn EXCEPT ![t] = Head(connections)]
                    /\ permits' = permits + 1
                    /\ fate' = [fate EXCEPT ![t] = "handed"]
                    /\ pc' = [pc EXCEPT ![t] = AfterBorrow(kind[t])]
               ELSE /\ pc' = [pc EXCEPT ![t] = "check_total"]
                    /\ UNCHANGED <<conn, permits, fate>>
       ELSE /\ pc' = [pc EXCEPT ![t] = "check_total"]
            /\ UNCHANGED <<connections, conn, permits, fate>>
    /\ UNCHANGED <<min_connections, max_connections, total_connections,
                   backendUp, outages, kind, nops, ops, results,
                   transaction_failed, result, closes,
                   started_after_close>>
    /\ UNCHANGED <<alertVars, mgrVars, unitVars>>

\* get_connection: read the counter and compare with max_connections
MayCreate(total, max) == total < max

CheckTotal(t) ==
    /\ pc[t] = "check_total"
    /\ IF MayCreate(total_connections, max_connections)
       THEN /\ pc' = [pc EXCEPT ![t] = "create"]
            /\ UNCHANGED <<permits, result>>
       ELSE /\ pc' = [pc EXCEPT ![t] = "done"]
            /\ result' = [result EXCEPT ![t] = "PoolExhausted"]
            /\ permits' = permits + 1
    /\ UNCHANGED <<min_connections, max_connections, connections,
                   total_connections, backendUp, outages, kind, nops, ops, conn,
                   results, transaction_failed, fate, closes,
                   started_after_close>>
    /\ UNCHANGED <<alertVars, mgrVars, unitVars>>

\* get_connection: create_connection().await, then the counter is bumped
Create(t) ==
    /\ pc[t] = "create"
    /\ permits' = permits + 1
    /\ IF backendUp
       THEN /\ conn' = [conn EXCEPT ![t] = NewConnection]
            /\ total_connections' = total_connections + 1
            /\ fate' = [fate EXCEPT ![t] = "handed"]
            /\ pc' = [pc EXCEPT ![t] = AfterBorrow(kind[t])]
            /\ UNCHANGED result
       ELSE /\ pc' = [pc EXCEPT ![t] = "done"]
            /\ result' = [result EXCEPT ![t] = "ConnectionFailed"]
            /\ UNCHANGED <<conn, total_connections, fate>>
    /\ UNCHANGED <<min_connections, max_connections, connections,
                   backendUp, outages, kind, nops, ops, results,
                   transaction_failed, closes,
                   started_after_close>>
    /\ UNCHANGED <<alertVars, mgrVars, unitVars>>

\* execute_query / execute_non_query: one statement on the borrowed session;
\* the session goes to return_connection whatever the outcome.
Statement(t) ==
    /\ pc[t] \in {"query", "execute"}
    /\ \E sqlOk \in BOOLEAN :
          /\ ops' = [ops EXCEPT ![t] = Append(@, sqlOk)]
          /\ result' = [result EXCEPT ![t] =
                IF StatementOk(conn[t], sqlOk) THEN "ok" ELSE "QueryError"]
    /\ pc' = [pc EXCEPT ![t] = "return"]
    /\ UNCHANGED <<min_connections, max_connections, connections, permits,
                   total_connections, backendUp, outages, kind, nops, conn,
                   results, transaction_failed, fate, closes,
                   started_after_close>>
    /\ UNCHANGED <<alertVars, mgrVars, unitVars>>

\* execute_batch with a loop that stops at the first failed operation
BatchOpBreak(t) ==
    /\ pc[t] = "batch"
    /\ IF Len(results[t]) < nops[t]
          /\ \A i \in 1..Len(results[t]) : results[t][i]
       THEN /\ \E sqlOk \in BOOLEAN :
                  /\ ops' = [ops EXCEPT ![t] = Append(@, sqlOk)]
                  /\ results' = [results EXCEPT ![t] =
                        Append(@, StatementOk(conn[t], sqlOk))]
            /\ UNCHANGED <<pc, result>>
       ELSE /\ pc' = [pc EXCEPT ![t] = "return"]
            /\ result' = [result EXCEPT ![t] = "ok"]
            /\ UNCHANGED <<ops, results>>
    /\ UNCHANGED <<min_connections, max_connections, connections, permits,
                   total_connections, backendUp, outages, kind, nops, conn,
                   transaction_failed, fate, closes,
                   started_after_close>>
    /\ UNCHANGED <<alertVars, mgrVars, unitVars>>

\* execute_batch: the loop body for the next operation; after the last one
\* the session is returned and the results are the Ok value.
BatchOp(t) ==
    /\ pc[t] = "batch"
    /\ IF Len(results[t]) < nops[t]
       THEN /\ \E sqlOk \in BOOLEAN :
                  /\ ops' = [ops EXCEPT ![t] = Append(@, sqlOk)]
                  /\ results' = [results EXCEPT ![t] =
                        Append(@, StatementOk(conn[t], sqlOk))]
            /\ UNCHANGED <<pc, result>>
       ELSE /\ pc' = [pc EXCEPT ![t] = "return"]
            /\ result' = [result EXCEPT ![t] = "ok"]
            /\ UNCHANGED <<ops, results>>
    /\ UNCHANGED <<min_connections, max_connections, connections, permits,
                   total_connections, backendUp, outages, kind, nops, conn,
                   transaction_failed, fate, closes,
                   started_after_close>>
    /\ UNCHANGED <<alertVars, mgrVars, unitVars>>

\* a begin that does not look at in_transaction
BeginAnyState(c) == c.client /\ c.alive

\* MSSQLConnection::begin_transaction
BeginOk(c) == ~c.in_transaction /\ c.client /\ c.alive

\* execute_transaction: connection.begin_transaction().await?  On Err the
\* function returns and the session, a local, is dropped.
Begin(t) ==
    /\ pc[t] = "begin"
    /\ IF BeginOk(conn[t])
       THEN /\ conn' = [conn EXCEPT ![t].in_transaction = TRUE]
            /\ pc' = [pc EXCEPT ![t] = "txn_ops"]
            /\ UNCHANGED <<result, fate>>
       ELSE /\ conn' = [conn EXCEPT ![t] = NoConn]
            /\ pc' = [pc EXCEPT ![t] = "done"]
            /\ result' = [result EXCEPT ![t] = "QueryError"]
            /\ fate' = [fate EXCEPT ![t] = "dropped"]
    /\ UNCHANGED <<min_connections, max_connections, connections, permits,
                   total_connections, backendUp, outages, kind, nops, ops,
                   results, transaction_failed, closes,
                   started_after_close>>
    /\ UNCHANGED <<alertVars, mgrVars, unitVars>>

\* execute_transaction with a loop that sets the flag and goes on
TxnOpNoBreak(t) ==
    /\ pc[t] = "txn_ops"
    /\ IF Len(results[t]) < nops[t]
       THEN \E sqlOk \in BOOLEAN :
              LET ok == StatementOk(conn[t], sqlOk)
              IN /\ ops' = [ops EXCEPT ![t] = Append(@, sqlOk)]
                 /\ results' = [results EXCEPT ![t] = Append(@, ok)]
                 /\ transaction_failed' =
                       [transaction_failed EXCEPT ![t] = @ \/ ~ok]
                 /\ UNCHANGED pc
       ELSE /\ pc' = [pc EXCEPT ![t] = "end_txn"]
            /\ UNCHANGED <<ops, results, transaction_failed>>
    /\ UNCHANGED <<min_connections, max_connections, connections, permits,
                   total_connections, backendUp, outages, kind, nops, conn,
                   result, fate, closes,
                   started_after_close>>
    /\ UNCHANGED <<alertVars, mgrVars, unitVars>>

\* execute_transaction: the loop body; the first error sets the flag and
\* breaks.
TxnOp(t) ==
    /\ pc[t] = "txn_ops"
    /\ IF Len(results[t]) < nops[t]
       THEN \E sqlOk \in BOOLEAN :
              LET ok == StatementOk(conn[t], sqlOk)
              IN /\ ops' = [ops EXCEPT ![t] = Append(@, sqlOk)]
                 /\ results' = [results EXCEPT ![t] = Append(@, ok)]
                 /\ transaction_failed' = [transaction_failed EXCEPT ![t] = ~ok]
                 /\ pc' = [pc EXCEPT ![t] = IF ok THEN "txn_ops" ELSE "end_txn"]
       ELSE /\ pc' = [pc EXCEPT ![t] = "end_txn"]
            /\ UNCHANGED <<ops, results, transaction_failed>>
    /\ UNCHANGED <<min_connections, max_connections, connections, permits,
                   total_connections, backendUp, outages, kind, nops, conn,
                   result, fate, closes,
                   started_after_close>>
    /\ UNCHANGED <<alertVars, mgrVars, unitVars>>

\* MSSQLConnection::commit_transaction / rollback_transaction
EndOk(c) == c.in_transaction /\ c.client /\ c.alive

\* execute_transaction: rollback_transaction().await? or
\* commit_transaction().await?; on Err the session is dropped.
EndTxn(t) ==
    /\ pc[t] = "end_txn"
    /\ IF EndOk(conn[t])
       THEN /\ conn' = [conn EXCEPT ![t].in_transaction = FALSE]
            /\ pc' = [pc EXCEPT ![t] = "return"]
            /\ result' = [result EXCEPT ![t] = "ok"]
            /\ UNCHANGED fate
       ELSE /\ conn' = [conn EXCEPT ![t] = NoConn]
            /\ pc' = [pc EXCEPT ![t] = "done"]
            /\ result' = [result EXCEPT ![t] = "QueryError"]
            /\ fate' = [fate EXCEPT ![t] = "dropped"]
    /\ UNCHANGED <<min_connections, max_connections, connections, permits,
                   total_connections, backendUp, outages, kind, nops, ops,
                   results, transaction_failed, closes,
                   started_after_close>>
    /\ UNCHANGED <<alertVars, mgrVars, unitVars>>

\* return_connection: a valid session is pushed to the back of the queue;
\* for an invalid one the counter is decremented (never below 0).
Return(t) ==
    /\ pc[t] = "return"
    /\ IF is_valid(conn[t])
       THEN /\ connections' = Append(connections, conn[t])
            /\ fate' = [fate EXCEPT ![t] = "returned"]
            /\ UNCHANGED total_connections
       ELSE /\ total_connections' =
                   IF total_connections > 0 THEN total_connections - 1 ELSE 0
            /\ fate' = [fate EXCEPT ![t] = "closed"]
            /\ UNCHANGED connections
    /\ conn' = [conn EXCEPT ![t] = NoConn]
    /\ pc' = [pc EXCEPT ![t] = "done"]
    /\ UNCHANGED <<min_connections, max_connections, permits, backendUp,
                   outages, kind, nops, ops, results, transaction_failed, result,
                   closes,
                   started_after_close>>
    /\ UNCHANGED <<alertVars, mgrVars, unitVars>>

\* MSSQLPool::close: under the queue's write lock every idle session is
\* closed, then the counter is reset to 0.
Close ==
    /\ closes < MaxCloses
    /\ closes' = closes + 1
    /\ connections' = <<>>
    /\ total_connections' = 0
    /\ UNCHANGED <<min_connections, max_connections, permits, backendUp,
                   outages, pc, kind, nops, ops, conn, results, transaction_failed,
                   result, fate,
                   started_after_close>>
    /\ UNCHANGED <<alertVars, mgrVars, unitVars>>

\* ------------------------------------------------------------ environment
Dead(c) == [c EXCEPT !.alive = FALSE]

\* The server goes away: open sessions stop answering, connects fail.
BackendDown ==
    /\ backendUp
    /\ outages < MaxOutages
    /\ backendUp' = FALSE
    /\ outages' = outages + 1
    /\ connections' = [i \in 1..Len(connections) |-> Dead(connections[i])]
    /\ conn' = [t \in Tasks |-> Dead(conn[t])]
    /\ UNCHANGED <<min_connections, max_connections, permits,
                   total_connections, pc, kind, nops, ops, results,
                   transaction_failed, result, fate, closes,
                   started_after_close>>
    /\ UNCHANGED <<alertVars, mgrVars, unitVars>>

\* The server is back: connects succeed again, old sessions stay dead.
BackendUp ==
    /\ ~backendUp
    /\ backendUp' = TRUE
    /\ UNCHANGED <<min_connections, max_connections, connections, permits,
                   total_connections, outages, pc, kind, nops, ops, conn, results,
                   transaction_failed, result, fate, closes,
                   started_after_close>>
    /\ UNCHANGED <<alertVars, mgrVars, unitVars>>

PoolNext ==
    \/ \E t \in Tasks : Start(t)
    \/ \E t \in Tasks : Acquire(t)
    \/ \E t \in Tasks : AcquireTimeout(t)
    \/ \E t \in Tasks : Pop(t)
    \/ \E t \in Tasks : CheckTotal(t)
    \/ \E t \in Tasks : Create(t)
    \/ \E t \in Tasks : Statement(t)
    \/ \E t \in Tasks : BatchOp(t)
    \/ \E t \in Tasks : Begin(t)
    \/ \E t \in Tasks : TxnOp(t)
    \/ \E t \in Tasks : EndTxn(t)
    \/ \E t \in Tasks : Return(t)
    \/ Close
    \/ BackendDown
    \/ BackendUp

\* sessions held by a borrower (between get_connection and return_connection)
Borrowed == Cardinality({t \in Tasks : pc[t] \in
                {"query", "execute", "batch", "begin", "txn_ops", "end_txn", "return"}})

\* ------------------------------------------------------- claims: the pool
\* C1: in every state reached by interleavings of the four execute
\* operations (close() not called), total_connections <= max_connections and
\* borrowed sessions + idle sessions <= max_connections.
C1_WithinMax ==
    closes = 0 =>
        /\ total_connections <= max_connections
        /\ Borrowed + Len(connections) <= max_connections

\* C2: with the backend reachable throughout (and the pool never closed),
\* every query whose statement the server accepts completes with ok - a
\* surplus query waits for a session instead of failing (an elapsed
\* acquire_timeout aside) - and no session beyond max_connections is opened.
C2_SurplusWaits ==
    (outages = 0 /\ closes = 0) =>
        /\ \A t \in Tasks :
              (pc[t] = "done" /\ kind[t] = "execute_query" /\ ops[t] # <<FALSE>>)
                  => result[t] \in {"ok", "AcquireTimeout"}
        /\ total_connections <= max_connections

\* C3: once the operation that borrowed a session has completed, with
\* success or with an error, the session is back in the idle queue or was
\* closed with the counter decremented; it was not dropped while counted.
C3_NoLeak ==
    \A t \in Tasks :
        (pc[t] = "done" /\ fate[t] # "none") => fate[t] \in {"returned", "closed"}

\* the positions of the failed operations among the results of task t
Failures(t) == {i \in 1..Len(results[t]) : ~results[t][i]}

\* the results of task t are those of a transaction that ran to its end:
\* one per executed operation; if one failed it is the last, nothing after
\* it was executed and the rollback branch was taken; if none failed every
\* operation was executed and the commit branch was taken
TransactionShape(t) ==
    /\ Len(results[t]) = Len(ops[t])
    /\ IF Failures(t) # {}
       THEN /\ Failures(t) = {Len(results[t])}
            /\ transaction_failed[t]
       ELSE /\ Len(results[t]) = nops[t]
            /\ ~transaction_failed[t]

\* C19 as stated: an execute_transaction that executed at least one
\* operation returns Ok with the results of the operations up to and
\* including the first failed one and rolls back, or, if none failed, with
\* one result per operation and commits.
C19_TransactionResults ==
    \A t \in Tasks :
        (/\ pc[t] = "done"
         /\ kind[t] = "execute_transaction"
         /\ Len(ops[t]) >= 1) =>
            (result[t] = "ok" /\ TransactionShape(t))

\* C19 amended: an execute_transaction never executes an operation after a
\* failed one, and when it returns Ok its results are those of the
\* operations up to and including the first failed one after the rollback
\* branch, or one per operation after the commit branch.
C19_TransactionResultsWhenOk ==
    \A t \in Tasks :
        kind[t] = "execute_transaction" =>
            /\ Len(results[t]) = Len(ops[t])
            /\ Len(results[t]) <= nops[t]
            /\ Failures(t) \subseteq {Len(results[t])}
            /\ (pc[t] = "done" /\ result[t] = "ok") => TransactionShape(t)

\* a transaction of two operations whose first operation failed has
\* returned Ok with that one result
C19_Witness ==
    \E t \in Tasks :
        /\ pc[t] = "done"
        /\ kind[t] = "execute_transaction"
        /\ result[t] = "ok"
        /\ nops[t] = 2
        /\ results[t] = <<FALSE>>
        /\ transaction_failed[t]

\* C20: an execute_batch that borrowed a session executes every operation
\* and returns Ok with one result per operation in input order, an
\* operation the server rejects having a failed result.
C20_BatchResults ==
    \A t \in Tasks :
        (/\ pc[t] = "done"
         /\ kind[t] = "execute_batch"
         /\ fate[t] # "none") =>
            /\ result[t] = "ok"
            /\ Len(ops[t]) = nops[t]
            /\ Len(results[t]) = nops[t]
            /\ \A i \in 1..nops[t] : ~ops[t][i] => ~results[t][i]

\* a batch of two operations has returned a failed result followed by a
\* successful one
C20_Witness ==
    \E t \in Tasks :
        /\ pc[t] = "done"
        /\ kind[t] = "execute_batch"
        /\ result[t] = "ok"
        /\ results[t] = <<FALSE, TRUE>>

\* C21: after close() has returned, a call that begins then fails with an
\* error and opens no new session (health_check is Ok(false) where
\* execute_query is Err, and opens a session where execute_query does).
C21_ClosedPoolRefuses ==
    \A t \in Tasks :
        (started_after_close[t] /\ pc[t] = "done") =>
            (result[t] \notin {"none", "ok"} /\ fate[t] = "none")

\* C29: a borrow that pops an idle session failing the liveness check
\* discards it, takes one off total_connections and, if the queue holds
\* more sessions, pops again before it looks at opening a new one.
C29_DeadIdleDiscarded ==
    [][\A t \in Tasks :
         (Pop(t) /\ connections # <<>> /\ ~is_valid(Head(connections))) =>
             /\ connections' = Tail(connections)
             /\ total_connections' = total_connections - 1
             /\ connections' # <<>> => pc'[t] = "pop"]_vars

\* the idle queue holds a session that passes the liveness check
LiveIdle == \E i \in 1..Len(connections) : is_valid(connections[i])

\* C30: when the idle queue holds at least one live session, the borrow
\* that looks at the queue hands out a live idle session and does not go on
\* to open a new one.
C30_LiveIdleIsHandedOut ==
    [][\A t \in Tasks :
         (Pop(t) /\ LiveIdle) =>
             /\ pc'[t] = AfterBorrow(kind[t])
             /\ is_valid(conn'[t])
             /\ Len(connections') = Len(connections) - 1
             /\ total_connections' = total_connections]_vars

\* C31: when a discard has left total_connections below min_connections on
\* a pool that was not closed, the pool opens sessions until, the backend
\* being reachable again, total_connections is at least min_connections.
C31_ToppedUpToMin ==
    (total_connections < min_connections /\ closes = 0)
        ~> (total_connections >= min_connections \/ closes > 0)

\* MSSQLPool::get_status: active = total - idle, on u32
active_connections == total_connections - Len(connections)

\* C36: in every reachable state of a pool the idle queue is no longer than
\* total_connections, so the active count that get_status computes as total
\* minus idle is never below zero
C36_IdleAtMostTotal ==
    /\ Len(connections) <= total_connections
    /\ active_connections >= 0

\* =========================================================== alert engine
\* utils/monitoring.rs: AlertManager.  Identifiers are sequences of the
\* words that "_" separates, so that format!("{}_{}", a, b) is a \o b.
NumEvals == 2       \* concurrent callers of evaluate_alerts
MaxEvalCalls == 4   \* evaluate_alerts calls in one behaviour
MaxSetups == 1      \* initialize_with_defaults calls in one behaviour

Evals == 1..NumEvals
NoInstant == -1     \* Option<Instant>::None


\* add_default_rules: thresholds 0.05, 1000 ms and 0.9, kept as per-cent
\* and milliseconds
default_rules == <<
    [id |-> <<"high", "error", "rate">>, condition |-> "HighErrorRate",
     threshold |-> 5, severity |-> "Warning", enabled |-> TRUE],
    [id |-> <<"high", "latency">>, condition |-> "HighLatency",
     threshold |-> 1000, severity |-> "Warning", enabled |-> TRUE],
    [id |-> <<"high", "connection", "utilization">>,
     condition |-> "HighConnectionUtilization",
     threshold |-> 90, severity |-> "Critical", enabled |-> TRUE] >>

\* the PoolSummary fields the conditions read: error_rate and
\* connection_utilization in per-cent, p99_latency_ms in milliseconds
Summaries == [pool_id : {<<"test", "pool">>}, error_rate : {1, 10},
              p99_latency_ms : {150, 1500}, connection_utilization : {80}]

\* evaluate_alerts: the match on rule.condition
should_alert(rule, sum) ==
    CASE rule.condition = "HighErrorRate" -> sum.error_rate > rule.threshold
      [] rule.condition = "HighLatency" -> sum.p99_latency_ms > rule.threshold
      [] rule.condition = "HighConnectionUtilization" ->
            sum.connection_utilization > rule.threshold
      [] OTHER -> FALSE

\* format!("{}_{}", rule.id, pool_id)
alert_id(rid, pool_id) == rid \o pool_id

\* trigger_alert's check: an alert with this id and resolved_at unset
HasUnresolved(alerts, id) ==
    \E i \in 1..Len(alerts) : alerts[i].id = id /\ alerts[i].resolved_at = NoInstant

\* a resolve_alert whose find() does not ask for resolved_at.is_none(): it
\* stamps the first alert with the id, resolved or not
resolve_any(alerts, id, t) ==
    IF \E k \in 1..Len(alerts) : alerts[k].id = id
    THEN LET i == CHOOSE k \in 1..Len(alerts) :
                    /\ alerts[k].id = id
                    /\ \A j \in 1..(k - 1) : alerts[j].id # id
         IN [alerts EXCEPT ![i].resolved_at = t]
    ELSE alerts

\* resolve_alert: iter_mut().find() takes the first unresolved alert with the
\* id and sets its resolved_at
resolve_alert(alerts, id, t) ==
    IF HasUnresolved(alerts, id)
    THEN LET i == CHOOSE k \in 1..Len(alerts) :
                    /\ alerts[k].id = id /\ alerts[k].resolved_at = NoInstant
                    /\ \A j \in 1..(k - 1) :
                          ~(alerts[j].id = id /\ alerts[j].resolved_at = NoInstant)
         IN [alerts EXCEPT ![i].resolved_at = t]
    ELSE alerts

\* get_active_alerts
get_active_alerts(alerts) == SelectSeq(alerts, LAMBDA a : a.resolved_at = NoInstant)

\* AlertManager::new
new_rules == <<>>

AlertInit ==
    /\ alert_rules = new_rules
    /\ active_alerts = <<>>
    /\ now = 0
    /\ apc = [e \in Evals |-> "idle"]
    /\ summary = [e \in Evals |-> CHOOSE x \in Summaries : TRUE]
    /\ rule_idx = [e \in Evals |-> 0]
    /\ alone = [e \in Evals |-> FALSE]
    /\ repeat = [e \in Evals |-> FALSE]
    /\ prev = [valid |-> FALSE, summary |-> CHOOSE x \in Summaries : TRUE,
               alerts |-> <<>>]
    /\ setups = 0

InFlight(e) == apc[e] \in {"rule", "push"}

\* initialize_with_defaults: needs the write lock on the rules, which no
\* evaluation in progress (a reader) allows
InitializeWithDefaults ==
    /\ setups < MaxSetups
    /\ \A e \in Evals : ~InFlight(e)
    /\ alert_rules' = alert_rules \o default_rules
    /\ setups' = setups + 1
    /\ alone' = [e \in Evals |-> FALSE]
    /\ repeat' = [e \in Evals |-> FALSE]
    /\ prev' = [prev EXCEPT !.valid = FALSE]
    /\ UNCHANGED <<active_alerts, now, apc, summary, rule_idx>>
    /\ UNCHANGED <<poolVars, mgrVars, unitVars>>

\* evaluate_alerts is called: the read lock on the rules is taken
EvalStart(e) ==
    /\ ~InFlight(e)
    /\ now < MaxEvalCalls
    /\ now' = now + 1
    /\ \E s \in Summaries :
          LET quiet == \A x \in Evals : ~InFlight(x)
              again == quiet /\ prev.valid /\ prev.summary = s
          IN /\ summary' = [summary EXCEPT ![e] = s]
             /\ alone' = [x \in Evals |-> x = e /\ quiet]
             /\ repeat' = [x \in Evals |-> x = e /\ again]
             /\ prev' = [prev EXCEPT !.valid = again]
    /\ apc' = [apc EXCEPT ![e] = "rule"]
    /\ rule_idx' = [rule_idx EXCEPT ![e] = 1]
    /\ UNCHANGED <<alert_rules, active_alerts, setups>>
    /\ UNCHANGED <<poolVars, mgrVars, unitVars>>

\* evaluate_alerts: one turn of the loop up to the next lock it waits for.
\* trigger_alert checks under the read lock and releases it; resolve_alert
\* works under the write lock.
EvalRule(e) ==
    /\ apc[e] = "rule"
    /\ rule_idx[e] <= Len(alert_rules)
    /\ LET rule == alert_rules[rule_idx[e]]
           id == alert_id(rule.id, summary[e].pool_id)
       IN IF ~rule.enabled
          THEN /\ rule_idx' = [rule_idx EXCEPT ![e] = @ + 1]
               /\ UNCHANGED <<active_alerts, apc>>
          ELSE IF should_alert(rule, summary[e])
          THEN IF HasUnresolved(active_alerts, id)
               THEN /\ rule_idx' = [rule_idx EXCEPT ![e] = @ + 1]
                    /\ UNCHANGED <<active_alerts, apc>>
               ELSE /\ apc' = [apc EXCEPT ![e] = "push"]
                    /\ UNCHANGED <<active_alerts, rule_idx>>
          ELSE /\ active_alerts' = resolve_alert(active_alerts, id, now)
               /\ rule_idx' = [rule_idx EXCEPT ![e] = @ + 1]
               /\ UNCHANGED apc
    /\ UNCHANGED <<alert_rules, now, summary, alone, repeat, prev, setups>>
    /\ UNCHANGED <<poolVars, mgrVars, unitVars>>

\* trigger_alert: the write lock is granted and the alert is pushed
Push(e) ==
    /\ apc[e] = "push"
    /\ LET rule == alert_rules[rule_idx[e]]
       IN active_alerts' = Append(active_alerts,
            [id |-> alert_id(rule.id, summary[e].pool_id),
             rule_id |-> rule.id,
             pool_id |-> summary[e].pool_id,
             severity |-> rule.severity,
             triggered_at |-> now,
             resolved_at |-> NoInstant])
    /\ rule_idx' = [rule_idx EXCEPT ![e] = @ + 1]
    /\ apc' = [apc EXCEPT ![e] = "rule"]
    /\ UNCHANGED <<alert_rules, now, summary, alone, repeat, prev, setups>>
    /\ UNCHANGED <<poolVars, mgrVars, unitVars>>

\* evaluate_alerts returns: the loop is past the last rule
EvalEnd(e) ==
    /\ apc[e] = "rule"
    /\ rule_idx[e] > Len(alert_rules)
    /\ apc' = [apc EXCEPT ![e] = "done"]
    /\ prev' = [valid |-> alone[e], summary |-> summary[e],
                alerts |-> active_alerts]
    /\ UNCHANGED <<alert_rules, active_alerts, now, summary, rule_idx, alone,
                   repeat, setups>>
    /\ UNCHANGED <<poolVars, mgrVars, unitVars>>

AlertNext ==
    \/ InitializeWithDefaults
    \/ \E e \in Evals : EvalStart(e)
    \/ \E e \in Evals : EvalRule(e)
    \/ \E e \in Evals : Push(e)
    \/ \E e \in Evals : EvalEnd(e)

UnresolvedCount(id) ==
    Cardinality({i \in 1..Len(active_alerts) :
        active_alerts[i].id = id /\ active_alerts[i].resolved_at = NoInstant})

AlertIds == {active_alerts[i].id : i \in 1..Len(active_alerts)}

\* -------------------------------------------------- claims: alert engine
\* C4: at no time do two alerts with the same id both have resolved_at unset.
C4_OneUnresolvedPerId == \A id \in AlertIds : UnresolvedCount(id) <= 1

\* C5: a second evaluation of the same summary, with no other call since the
\* first, leaves the alert collection as the first evaluation left it.
C5_SecondEvaluationChangesNothing ==
    \A e \in Evals : repeat[e] => active_alerts = prev.alerts

\* C6: after an evaluation for which a rule's condition is false, no alert of
\* that rule and pool is unresolved (get_active_alerts returns none); after
\* one for which it is true, an unresolved alert of that rule and pool exists.
C6_ResolvedWhenConditionFalse ==
    \A e \in Evals : (apc[e] = "done" /\ alone[e]) =>
        \A i \in 1..Len(alert_rules) :
            LET rule == alert_rules[i]
                mine == SelectSeq(get_active_alerts(active_alerts),
                          LAMBDA a : a.id = alert_id(rule.id, summary[e].pool_id))
            IN rule.enabled =>
                 IF should_alert(rule, summary[e]) THEN mine # <<>> ELSE mine = <<>>

\* C7: on a manager from AlertManager::new() with no setup call, evaluating a
\* summary with error rate 0.10 leaves an unresolved high_error_rate alert
\* for the pool (the three default rules are there).
C7_DefaultRulesAfterNew ==
    \A e \in Evals :
        (setups = 0 /\ apc[e] = "done" /\ alone[e] /\ summary[e].error_rate = 10) =>
            /\ Len(alert_rules) = 3
            /\ \E i \in 1..Len(active_alerts) :
                  /\ active_alerts[i].rule_id = <<"high", "error", "rate">>
                  /\ active_alerts[i].pool_id = summary[e].pool_id
                  /\ active_alerts[i].resolved_at = NoInstant

\* C39: the alert collection only grows and a resolution is final: no step
\* removes an alert, and an alert whose resolved_at is set is never changed
\* again
C39_AlertsGrowResolutionFinal ==
    [][/\ Len(active_alerts') >= Len(active_alerts)
       /\ \A i \in 1..Len(active_alerts) :
             /\ active_alerts'[i].id = active_alerts[i].id
             /\ active_alerts'[i].triggered_at = active_alerts[i].triggered_at
             /\ active_alerts[i].resolved_at # NoInstant
                   => active_alerts'[i] = active_alerts[i]]_vars

\* an alert was resolved, and an evaluation that began later is at a rule
\* whose condition is quiet for that alert's id
C39_Witness ==
    \E e \in Evals, i \in 1..Len(active_alerts) :
        /\ active_alerts[i].resolved_at # NoInstant
        /\ active_alerts[i].resolved_at < now
        /\ apc[e] = "rule"
        /\ rule_idx[e] <= Len(alert_rules)
        /\ alert_id(alert_rules[rule_idx[e]].id, summary[e].pool_id)
              = active_alerts[i].id
        /\ ~should_alert(alert_rules[rule_idx[e]], summary[e])

\* ================================================================ session
\* databases/mssql/connection.rs: the transaction methods and close of one
\* MSSQLConnection, called in any order, with a server that may go away.
MaxSessionCalls == 4

\* MSSQLConnection::new on a connected client
SessInit ==
    /\ session = NewConnection
    /\ last_call = [name |-> "new", ok |-> TRUE]
    /\ wire = <<>>
    /\ session_calls = 0

Called(name, ok) ==
    /\ last_call' = [name |-> name, ok |-> ok]
    /\ session_calls' = session_calls + 1

\* begin_transaction
SessBegin ==
    /\ session_calls < MaxSessionCalls
    /\ IF BeginOk(session)
       THEN /\ session' = [session EXCEPT !.in_transaction = TRUE]
            /\ wire' = Append(wire, "BEGIN TRANSACTION")
            /\ Called("begin_transaction", TRUE)
       ELSE /\ Called("begin_transaction", FALSE)
            /\ UNCHANGED <<session, wire>>
    /\ UNCHANGED <<poolVars, alertVars, mgrVars, cfgVars, ringVars>>

\* commit_transaction
SessCommit ==
    /\ session_calls < MaxSessionCalls
    /\ IF EndOk(session)
       THEN /\ session' = [session EXCEPT !.in_transaction = FALSE]
            /\ wire' = Append(wire, "COMMIT TRANSACTION")
            /\ Called("commit_transaction", TRUE)
       ELSE /\ Called("commit_transaction", FALSE)
            /\ UNCHANGED <<session, wire>>
    /\ UNCHANGED <<poolVars, alertVars, mgrVars, cfgVars, ringVars>>

\* rollback_transaction
SessRollback ==
    /\ session_calls < MaxSessionCalls
    /\ IF EndOk(session)
       THEN /\ session' = [session EXCEPT !.in_transaction = FALSE]
            /\ wire' = Append(wire, "ROLLBACK TRANSACTION")
            /\ Called("rollback_transaction", TRUE)
       ELSE /\ Called("rollback_transaction", FALSE)
            /\ UNCHANGED <<session, wire>>
    /\ UNCHANGED <<poolVars, alertVars, mgrVars, cfgVars, ringVars>>

\* the session and the wire after close's `let _ = rollback_transaction()`
RolledBack(c, w) ==
    IF c.in_transaction /\ EndOk(c)
    THEN [conn |-> [c EXCEPT !.in_transaction = FALSE],
          wire |-> Append(w, "ROLLBACK TRANSACTION")]
    ELSE [conn |-> c, wire |-> w]

\* close: rollback if in a transaction, then client.take() and its close
SessClose ==
    /\ session_calls < MaxSessionCalls
    /\ LET r == RolledBack(session, wire)
       IN /\ session' = [r.conn EXCEPT !.client = FALSE]
          /\ wire' = IF r.conn.client /\ r.conn.alive
                     THEN Append(r.wire, "close") ELSE r.wire
          /\ Called("close", ~r.conn.client \/ r.conn.alive)
    /\ UNCHANGED <<poolVars, alertVars, mgrVars, cfgVars, ringVars>>

\* the server goes away: the session stops answering
SessServerGone ==
    /\ session.alive
    /\ session' = Dead(session)
    /\ UNCHANGED <<last_call, wire, session_calls>>
    /\ UNCHANGED <<poolVars, alertVars, mgrVars, cfgVars, ringVars>>

SessNext ==
    \/ SessBegin
    \/ SessCommit
    \/ SessRollback
    \/ SessClose
    \/ SessServerGone

\* C28: begin succeeds only from Idle and then moves to InTx; from InTx it
\* fails and the state stays InTx.  commit and rollback succeed only from
\* InTx and then move to Idle; from Idle they fail and the state stays Idle.
\* close of a live session in InTx sends the rollback before it closes.
C28_TransactionStateMachine ==
    [][/\ SessBegin =>
            /\ last_call'.ok => (~session.in_transaction /\ session'.in_transaction)
            /\ session.in_transaction =>
                  (~last_call'.ok /\ session'.in_transaction)
       /\ (SessCommit \/ SessRollback) =>
            /\ last_call'.ok => (session.in_transaction /\ ~session'.in_transaction)
            /\ ~session.in_transaction =>
                  (~last_call'.ok /\ ~session'.in_transaction)
       /\ (SessClose /\ session.in_transaction /\ is_valid(session)) =>
            /\ wire' = wire \o <<"ROLLBACK TRANSACTION", "close">>
            /\ ~session'.in_transaction]_vars

\* a nested begin has failed on a session that is in a transaction
C28_Witness ==
    /\ last_call = [name |-> "begin_transaction", ok |-> FALSE]
    /\ session.in_transaction
    /\ is_valid(session)
    /\ wire = <<"BEGIN TRANSACTION">>

\* ======================================================== latency samples
\* utils/monitoring.rs: MetricsCollector::record_query_metrics on the entry
\* of one pool.  Latencies are numbers of milliseconds.
MaxRecords == 1030
Latencies == {5}

\* get_pool_metrics has not been called
NoSummary == [avg_latency_ms |-> -1, p99_latency_ms |-> -1]

\* MetricsCollector::new
RingInit ==
    /\ metrics_collector = <<>>
    /\ pool_summary = NoSummary

\* the entry or_insert_with creates
NewPoolMetricsData ==
    [total_queries |-> 0, successful_queries |-> 0, failed_queries |-> 0,
     query_latencies |-> <<>>]

\* the number of samples record_query_metrics keeps
LatencyWindow == 1000

\* no sample is ever removed
KeepAll(q) == q

\* push, then remove(0) when the length exceeds the window
Trim(q) == IF Len(q) > LatencyWindow THEN Tail(q) ELSE q

\* the body of record_query_metrics on the entry
Recorded(d, success, latency) ==
    [total_queries |-> d.total_queries + 1,
     successful_queries |-> d.successful_queries + (IF success THEN 1 ELSE 0),
     failed_queries |-> d.failed_queries + (IF success THEN 0 ELSE 1),
     query_latencies |-> Trim(Append(d.query_latencies, latency))]

\* record_query_metrics(pool_id, success, latency)
RecordQueryMetrics ==
    \E success \in BOOLEAN : \E latency \in Latencies :
        LET d == IF "p1" \in DOMAIN metrics_collector
                 THEN metrics_collector["p1"] ELSE NewPoolMetricsData
        IN /\ d.total_queries < MaxRecords
           /\ metrics_collector' = [id \in {"p1"} |->
                                      Recorded(d, success, latency)]
           /\ UNCHANGED pool_summary
           /\ UNCHANGED <<poolVars, alertVars, mgrVars, cfgVars, sessVars>>

\* C24: after any number of record_query_metrics calls for a pool, at most
\* 1024 latency samples are kept for it.
C24_AtMost1024Samples ==
    \A id \in DOMAIN metrics_collector :
        Len(metrics_collector[id].query_latencies) <= 1024

\* more than 1024 calls have been recorded for the pool
C24_Witness ==
    /\ "p1" \in DOMAIN metrics_collector
    /\ metrics_collector["p1"].total_queries > 1024
    /\ Len(metrics_collector["p1"].query_latencies) = LatencyWindow

\* ---------------------------------------------------------- p99 latency
\* utils/monitoring.rs: MetricsCollector::get_pool_metrics on a window of
\* N samples.
MaxSamples == 200

\* N samples recorded slowest first
Descending(n) == [i \in 1..n |-> n + 1 - i]

\* N samples of 5 ms, the last recorded one of 900 ms
Spike(n) == [i \in 1..n |-> IF i = n THEN 900 ELSE 5]

\* the collector after the samples were recorded, all successful
CollectorWith(samples) ==
    [id \in {"p1"} |->
        [total_queries |-> Len(samples), successful_queries |-> Len(samples),
         failed_queries |-> 0, query_latencies |-> samples]]

\* query_latencies.iter().sum(), added up by halves
RECURSIVE SumRange(_, _, _)
SumRange(q, lo, hi) ==
    IF lo > hi THEN 0
    ELSE IF lo = hi THEN q[lo]
    ELSE LET mid == (lo + hi) \div 2
         IN SumRange(q, lo, mid) + SumRange(q, mid + 1, hi)

Sum(q) == SumRange(q, 1, Len(q))

\* the index the nearest-rank rule gives: ceil(0.99 * n) - 1
NearestRankIndex(n) == ((99 * n + 99) \div 100) - 1

\* (len as f64 * 0.99) as usize
p99_index(n) == (n * 99) \div 100

\* sorted_latencies.get(index).unwrap_or(ZERO), index counted from 0
Get(sorted, index) == IF index < Len(sorted) THEN sorted[index + 1] ELSE 0

\* the latency fields of the PoolSummary get_pool_metrics builds
Summary(d) ==
    IF d.query_latencies # <<>>
    THEN LET sorted_latencies == SortSeq(d.query_latencies,
                                         LAMBDA a, b : a < b)
         IN [avg_latency_ms |->
                 Sum(d.query_latencies) \div Len(d.query_latencies),
             p99_latency_ms |->
                 Get(sorted_latencies, p99_index(Len(sorted_latencies)))]
    ELSE [avg_latency_ms |-> 0, p99_latency_ms |-> 0]

\* get_pool_metrics(pool_id)
GetPoolMetrics ==
    /\ pool_summary = NoSummary
    /\ "p1" \in DOMAIN metrics_collector
    /\ pool_summary' = Summary(metrics_collector["p1"])
    /\ UNCHANGED metrics_collector
    /\ UNCHANGED <<poolVars, alertVars, mgrVars, cfgVars, sessVars>>

\* a window of 1 to MaxSamples samples, before get_pool_metrics is called
P99Init ==
    /\ \E n \in 1..MaxSamples :
          metrics_collector \in {CollectorWith(Descending(n)),
                                 CollectorWith(Spike(n))}
    /\ pool_summary = NoSummary

\* C32: for a window of N >= 1 samples the p99 latency get_pool_metrics
\* reports is the element at index ceil(0.99 * N) - 1 of the samples sorted
\* in ascending order.
C32_P99NearestRank ==
    pool_summary # NoSummary =>
        LET q == metrics_collector["p1"].query_latencies
        IN pool_summary.p99_latency_ms =
               Get(SortSeq(q, LAMBDA a, b : a < b), NearestRankIndex(Len(q)))

\* ===================================================== config validation
\* core/config.rs: ConfigManager::validate_config as a function of one
\* DatabaseConfig.
DatabaseTypes == {"MSSQL", "PostgreSQL", "Redis", "SQLite", "InfluxDB"}

\* the configurations handed to validate_config: every backend, host and
\* database empty or not, port 0 or not, min and max from 0 to MaxConn
InputConfigs ==
    [db_type : DatabaseTypes, host : {"", "h1"}, port : {0, 1433},
     database : {"", "app"}, username : {"u"},
     min_connections : 0..MaxConn, max_connections : 0..MaxConn]

CfgIdle ==
    /\ input_config = [db_type |-> "MSSQL", host |-> "h1", port |-> 1433,
                       database |-> "app", username |-> "u",
                       min_connections |-> 1, max_connections |-> 1]
    /\ verdict = "none"

CfgInit ==
    /\ input_config \in InputConfigs
    /\ verdict = "none"

UnitIdle == CfgIdle /\ RingInit /\ SessInit

\* ConfigManager::validate_config
validate_config(cfg) ==
    /\ cfg.host # ""
    /\ ~(cfg.port = 0 /\ cfg.db_type # "SQLite")
    /\ ~(cfg.database = "" /\ cfg.db_type # "Redis")
    /\ ~(cfg.min_connections > cfg.max_connections)
    /\ cfg.max_connections # 0

\* validate_config is called on the configuration
Validate ==
    /\ verdict = "none"
    /\ verdict' = IF validate_config(input_config)
                  THEN "Ok" ELSE "ValidationFailed"
    /\ UNCHANGED input_config
    /\ UNCHANGED <<poolVars, alertVars, mgrVars, ringVars, sessVars>>

\* the invariants the specification lists for a configuration
StatedInvariants(cfg) ==
    /\ 1 <= cfg.min_connections
    /\ cfg.min_connections <= cfg.max_connections
    /\ cfg.max_connections > 0
    /\ (cfg.host # "" \/ cfg.db_type = "SQLite")
    /\ (cfg.database # "" \/ cfg.db_type = "Redis")
    /\ (cfg.port > 0 \/ cfg.db_type = "SQLite")

\* C22: validate_config returns Ok for a configuration if and only if
\* 1 <= min_connections <= max_connections, max_connections > 0, host is
\* non-empty unless the backend is SQLite, database is non-empty unless the
\* backend is Redis, and port > 0 unless the backend is SQLite.
C22_AcceptsIffInvariants ==
    verdict # "none" => (verdict = "Ok" <=> StatedInvariants(input_config))

\* ========================================================== pool manager
\* core/pool_manager.rs: DistributedPoolManager, MetricsCollector,
\* HealthMonitor.  A pool object is kept by its counters: sessions in the
\* idle queue that answer (idle) and that died (dead, in front of the live
\* ones since they are older), the counter total_connections, and whether
\* close() was called on it.
NumCallers == 2     \* concurrent callers of the manager
MaxMgrCalls == 4    \* manager calls in one behaviour
MaxFlips == 1       \* times a host goes down

Callers == 1..NumCallers
PoolIds == {"p1", "p2"}
Hosts == {"h1", "h2"}
DispatchKinds == {"execute_query", "execute_non_query", "execute_batch"}
\* the ids callers dispatch to: the pool ids and one that is never created
DispatchIds == PoolIds \cup {"p3"}

MkConfig(h, min, max) ==
    [db_type |-> "MSSQL", host |-> h, port |-> 1433, database |-> "app",
     username |-> "u", min_connections |-> min, max_connections |-> max]

\* the configurations callers pass: a pool that is full from the start, one
\* that opens its session on demand, and one with min > max
Configs == {MkConfig("h1", 1, 1), MkConfig("h2", 0, 1), MkConfig("h1", 2, 1)}

\* DatabaseFactory::create_pool -> MSSQLPool::new: validate_config of the
\* pool, then ensure_min_connections, which fails with the first session
\* that cannot be opened
CanConstruct(cfg, up) ==
    /\ cfg.db_type = "MSSQL" /\ cfg.host # "" /\ cfg.username # ""
    /\ (cfg.min_connections = 0 \/ up[cfg.host])

\* a pool that opens no session when it is built
LazyPoolObject(cfg) ==
    [config |-> cfg, total_connections |-> 0, idle |-> 0, dead |-> 0,
     closed |-> FALSE]

NewPoolObject(cfg) ==
    [config |-> cfg,
     total_connections |-> NewPool(cfg.min_connections).total_connections,
     idle |-> Len(NewPool(cfg.min_connections).connections),
     dead |-> 0,
     closed |-> FALSE]

\* MSSQLPool::close
ClosedObject(o) ==
    [o EXCEPT !.total_connections = 0, !.idle = 0, !.dead = 0, !.closed = TRUE]

\* MSSQLPool::get_status
get_status(o) ==
    [total_connections |-> o.total_connections,
     idle_connections |-> o.idle + o.dead,
     active_connections |-> o.total_connections - (o.idle + o.dead)]

\* One whole execute_query / execute_non_query of a pool that no other task
\* uses meanwhile: get_connection (pop_front and is_valid, else the counter
\* check and create_connection), the statement, return_connection.
\* Gives the pool afterwards and the error: "Query" for a QueryError,
\* "PoolExhausted" or "ConnectionFailed" for a ConnectionError.
PoolExec(o, sqlOk, up) ==
    LET popDead == o.dead > 0
        afterPop == IF popDead THEN [o EXCEPT !.dead = @ - 1] ELSE o
        err == IF sqlOk THEN "none" ELSE "Query"
    IN IF ~popDead /\ o.idle > 0
       THEN [obj |-> o, error |-> err]
       ELSE IF afterPop.total_connections < o.config.max_connections
            THEN IF up[o.config.host]
                 THEN [obj |-> [afterPop EXCEPT !.total_connections = @ + 1,
                                                !.idle = @ + 1],
                       error |-> err]
                 ELSE [obj |-> afterPop, error |-> "ConnectionFailed"]
            ELSE [obj |-> afterPop, error |-> "PoolExhausted"]

\* the FailoverStrategy values callers set
LocalOnly == [kind |-> "LocalOnly", primary |-> "", backup |-> "", pools |-> <<>>]
ActiveStandbyP1P2 ==
    [kind |-> "ActiveStandby", primary |-> "p1", backup |-> "p2", pools |-> <<>>]
Strategies ==
    {LocalOnly,
     ActiveStandbyP1P2,
     [kind |-> "LoadBalanced", primary |-> "", backup |-> "", pools |-> <<"p2", "p1">>]}

\* HealthMonitor::is_pool_healthy
is_pool_healthy(health, id) == id \in DOMAIN health /\ health[id]

\* the fallback with the LocalOnly arm falling through to the scan of the
\* registered pools
get_pool_any_registered(pools, health, strategy, id) ==
    IF id \in DOMAIN pools /\ is_pool_healthy(health, id)
    THEN pools[id]
    ELSE IF DOMAIN pools = {} THEN 0
         ELSE pools[CHOOSE x \in DOMAIN pools : TRUE]

\* the fallback with the load-balanced scan keeping the last healthy pool
\* of the list instead of returning at the first
get_pool_last_healthy(pools, health, strategy, id) ==
    IF id \in DOMAIN pools /\ is_pool_healthy(health, id)
    THEN pools[id]
    ELSE CASE strategy.kind = "LocalOnly" -> 0
           [] strategy.kind = "ActiveStandby" ->
                IF strategy.backup \in DOMAIN pools THEN pools[strategy.backup] ELSE 0
           [] OTHER ->
                LET ok == {i \in 1..Len(strategy.pools) :
                              /\ strategy.pools[i] \in DOMAIN pools
                              /\ is_pool_healthy(health, strategy.pools[i])}
                IN IF ok = {} THEN 0
                   ELSE pools[strategy.pools[CHOOSE i \in ok : \A j \in ok : i >= j]]

\* get_pool_with_fallback: the pool object a dispatch to id is served by,
\* 0 for Err
get_pool_with_fallback(pools, health, strategy, id) ==
    IF id \in DOMAIN pools /\ is_pool_healthy(health, id)
    THEN pools[id]
    ELSE CASE strategy.kind = "LocalOnly" -> 0
           [] strategy.kind = "ActiveStandby" ->
                IF strategy.backup \in DOMAIN pools THEN pools[strategy.backup] ELSE 0
           [] OTHER ->
                LET ok == {i \in 1..Len(strategy.pools) :
                              /\ strategy.pools[i] \in DOMAIN pools
                              /\ is_pool_healthy(health, strategy.pools[i])}
                IN IF ok = {} THEN 0
                   ELSE pools[strategy.pools[CHOOSE i \in ok : \A j \in ok : i <= j]]

\* DashMap insert / remove on a map kept as a function
Insert(map, k, v) == [x \in DOMAIN map \cup {k} |-> IF x = k THEN v ELSE map[x]]
Remove(map, k) == [x \in DOMAIN map \ {k} |-> map[x]]

\* MetricsCollector::record_pool_created
NewMetrics == [total_queries |-> 0, total_errors |-> 0]

\* MetricsCollector::record_query_success
record_query_success(metrics, id) ==
    IF id \in DOMAIN metrics
    THEN [metrics EXCEPT ![id].total_queries = @ + 1]
    ELSE metrics

\* MetricsCollector::record_query_error
record_query_error(metrics, id) ==
    IF id \in DOMAIN metrics
    THEN [metrics EXCEPT ![id].total_queries = @ + 1, ![id].total_errors = @ + 1]
    ELSE metrics

NoArg == [config |-> MkConfig("h1", 1, 1), sqlOk |-> TRUE]

\* DistributedPoolManager::new
MgrInit ==
    /\ local_pools = <<>>
    /\ pool_configs = <<>>
    /\ pool_health_status = <<>>
    /\ pool_metrics = <<>>
    /\ failover_strategy = LocalOnly
    /\ objs = <<>>
    /\ hostUp = [h \in Hosts |-> TRUE]
    /\ mpc = [c \in Callers |-> "idle"]
    /\ op = [c \in Callers |-> "none"]
    /\ target = [c \in Callers |-> "p1"]
    /\ arg = [c \in Callers |-> NoArg]
    /\ pool = [c \in Callers |-> 0]
    /\ error = [c \in Callers |-> "none"]
    /\ outcome = [c \in Callers |-> "none"]
    /\ reply = [c \in Callers |-> "none"]
    /\ removed = {}
    /\ mcalls = 0
    /\ flips = 0
    /\ probe_tasks = [id \in PoolIds |-> 0]
    /\ tick = 0

\* A manager on which create_pool("p1", a), create_pool("p2", b) and
\* set_failover_strategy(ActiveStandby{p1, p2}) have returned, a and b being
\* the two valid configurations in either order
MgrInitTwoPools(strategy) ==
    /\ \E a, b \in {cfg \in Configs : validate_config(cfg)} :
          /\ a # b
          /\ objs = <<NewPoolObject(a), NewPoolObject(b)>>
          /\ pool_configs = Insert(Insert(<<>>, "p1", a), "p2", b)
    /\ local_pools = Insert(Insert(<<>>, "p1", 1), "p2", 2)
    /\ pool_health_status = Insert(Insert(<<>>, "p1", TRUE), "p2", TRUE)
    /\ pool_metrics = Insert(Insert(<<>>, "p1", NewMetrics), "p2", NewMetrics)
    /\ failover_strategy = strategy
    /\ hostUp = [h \in Hosts |-> TRUE]
    /\ mpc = [c \in Callers |-> "idle"]
    /\ op = [c \in Callers |-> "none"]
    /\ target = [c \in Callers |-> "p1"]
    /\ arg = [c \in Callers |-> NoArg]
    /\ pool = [c \in Callers |-> 0]
    /\ error = [c \in Callers |-> "none"]
    /\ outcome = [c \in Callers |-> "none"]
    /\ reply = [c \in Callers |-> "none"]
    /\ removed = {}
    /\ mcalls = 0
    /\ flips = 0
    /\ probe_tasks = [id \in PoolIds |-> 1]
    /\ tick = 0

\* ... and set_failover_strategy(ActiveStandby p1 -> p2) was called
MgrInitFailover == MgrInitTwoPools(ActiveStandbyP1P2)
\* ... and the strategy is the one the manager starts with
MgrInitLocal == MgrInitTwoPools(LocalOnly)

Free(c) == mpc[c] \in {"idle", "done"} /\ mcalls < MaxMgrCalls

\* a rebuild in progress keeps the DashMap guard of pool_configs.get(id)
\* until recreate_pool returns; an insert for the id waits for it
ConfigGuardHeld(id) == \E c \in Callers : mpc[c] = "rebuild" /\ target[c] = id

\* create_pool is called: validate_config, then the pool is being built
CallCreatePool(c) ==
    /\ Free(c)
    /\ \E id \in PoolIds : \E cfg \in Configs :
          /\ target' = [target EXCEPT ![c] = id]
          /\ arg' = [arg EXCEPT ![c] = [config |-> cfg, sqlOk |-> TRUE]]
          /\ IF validate_config(cfg)
             THEN /\ mpc' = [mpc EXCEPT ![c] = "construct"]
                  /\ outcome' = [outcome EXCEPT ![c] = "none"]
             ELSE /\ mpc' = [mpc EXCEPT ![c] = "done"]
                  /\ outcome' = [outcome EXCEPT ![c] = "Config"]
    /\ op' = [op EXCEPT ![c] = "create_pool"]
    /\ pool' = [pool EXCEPT ![c] = 0]
    /\ error' = [error EXCEPT ![c] = "none"]
    /\ mcalls' = mcalls + 1
    /\ UNCHANGED <<local_pools, pool_configs, pool_health_status, pool_metrics,
                   failover_strategy, objs, hostUp, removed, flips>>
    /\ UNCHANGED <<poolVars, alertVars, unitVars, reply, probe_tasks, tick>>

\* create_pool after the pool is built: the config and the pool are stored,
\* monitoring starts, the metrics entry is created
Registered(c, o) ==
    /\ pool_configs' = Insert(pool_configs, target[c], arg[c].config)
    /\ local_pools' = Insert(local_pools, target[c], o)
    /\ pool_health_status' = Insert(pool_health_status, target[c], TRUE)
    /\ probe_tasks' = [probe_tasks EXCEPT ![target[c]] = @ + 1]
    /\ pool_metrics' = Insert(pool_metrics, target[c], NewMetrics)
    /\ outcome' = [outcome EXCEPT ![c] = "ok"]
    /\ removed' = removed \ {target[c]}
    /\ mpc' = [mpc EXCEPT ![c] = "done"]
    /\ pool' = [pool EXCEPT ![c] = 0]

\* create_pool that stores the config before the pool is built
ConstructConfigFirst(c) ==
    /\ mpc[c] = "construct"
    /\ IF CanConstruct(arg[c].config, hostUp)
       THEN /\ objs' = Append(objs, NewPoolObject(arg[c].config))
            /\ IF ConfigGuardHeld(target[c])
               THEN /\ mpc' = [mpc EXCEPT ![c] = "register"]
                    /\ pool' = [pool EXCEPT ![c] = Len(objs) + 1]
                    /\ UNCHANGED <<pool_configs, local_pools, pool_health_status,
                                   pool_metrics, outcome, removed, probe_tasks>>
               ELSE Registered(c, Len(objs) + 1)
       ELSE /\ outcome' = [outcome EXCEPT ![c] = "ConnectionFailed"]
            /\ mpc' = [mpc EXCEPT ![c] = "done"]
            /\ pool_configs' = Insert(pool_configs, target[c], arg[c].config)
            /\ UNCHANGED <<objs, local_pools, pool_health_status,
                           pool_metrics, removed, pool, probe_tasks>>
    /\ UNCHANGED <<failover_strategy, hostUp, op, target, arg, error,
                   mcalls, flips>>
    /\ UNCHANGED <<poolVars, alertVars, unitVars, reply, tick>>

\* create_pool: DatabaseFactory::create_pool returns; Err leaves with `?`;
\* Ok goes on to store the pool unless pool_configs.insert has to wait
Construct(c) ==
    /\ mpc[c] = "construct"
    /\ IF CanConstruct(arg[c].config, hostUp)
       THEN /\ objs' = Append(objs, NewPoolObject(arg[c].config))
            /\ IF ConfigGuardHeld(target[c])
               THEN /\ mpc' = [mpc EXCEPT ![c] = "register"]
                    /\ pool' = [pool EXCEPT ![c] = Len(objs) + 1]
                    /\ UNCHANGED <<pool_configs, local_pools, pool_health_status,
                                   pool_metrics, outcome, removed, probe_tasks>>
               ELSE Registered(c, Len(objs) + 1)
       ELSE /\ outcome' = [outcome EXCEPT ![c] = "ConnectionFailed"]
            /\ mpc' = [mpc EXCEPT ![c] = "done"]
            /\ UNCHANGED <<objs, pool_configs, local_pools, pool_health_status,
                           pool_metrics, removed, pool, probe_tasks>>
    /\ UNCHANGED <<failover_strategy, hostUp, op, target, arg, error,
                   mcalls, flips>>
    /\ UNCHANGED <<poolVars, alertVars, unitVars, reply, tick>>

\* create_pool: pool_configs.insert got the lock
Register(c) ==
    /\ mpc[c] = "register"
    /\ ~ConfigGuardHeld(target[c])
    /\ Registered(c, pool[c])
    /\ UNCHANGED <<failover_strategy, objs, hostUp, op, target, arg, error,
                   mcalls, flips>>
    /\ UNCHANGED <<poolVars, alertVars, unitVars, reply, tick>>

\* remove_pool is called: stop_monitoring, then the pool is taken out of the
\* map (Err if there is none) and the config removed, which may have to wait;
\* close() is awaited
CallRemovePool(c) ==
    /\ Free(c)
    /\ \E id \in PoolIds :
          /\ target' = [target EXCEPT ![c] = id]
          /\ pool_health_status' = Remove(pool_health_status, id)
          /\ IF id \in DOMAIN local_pools
             THEN /\ local_pools' = Remove(local_pools, id)
                  /\ pool' = [pool EXCEPT ![c] = local_pools[id]]
                  /\ outcome' = [outcome EXCEPT ![c] = "none"]
                  /\ IF ConfigGuardHeld(id)
                     THEN /\ mpc' = [mpc EXCEPT ![c] = "remove_config"]
                          /\ UNCHANGED pool_configs
                     ELSE /\ mpc' = [mpc EXCEPT ![c] = "remove_close"]
                          /\ pool_configs' = Remove(pool_configs, id)
             ELSE /\ mpc' = [mpc EXCEPT ![c] = "done"]
                  /\ outcome' = [outcome EXCEPT ![c] = "Runtime"]
                  /\ pool' = [pool EXCEPT ![c] = 0]
                  /\ UNCHANGED <<local_pools, pool_configs>>
    /\ op' = [op EXCEPT ![c] = "remove_pool"]
    /\ arg' = [arg EXCEPT ![c] = NoArg]
    /\ error' = [error EXCEPT ![c] = "none"]
    /\ mcalls' = mcalls + 1
    /\ UNCHANGED <<pool_metrics, failover_strategy, objs, hostUp, removed, flips>>
    /\ UNCHANGED <<poolVars, alertVars, unitVars, reply, probe_tasks, tick>>

\* remove_pool: pool_configs.remove got the lock
RemoveConfig(c) ==
    /\ mpc[c] = "remove_config"
    /\ ~ConfigGuardHeld(target[c])
    /\ pool_configs' = Remove(pool_configs, target[c])
    /\ mpc' = [mpc EXCEPT ![c] = "remove_close"]
    /\ UNCHANGED <<local_pools, pool_health_status, pool_metrics,
                   failover_strategy, objs, hostUp, op, target, arg, pool,
                   error, outcome, removed, mcalls, flips>>
    /\ UNCHANGED <<poolVars, alertVars, unitVars, reply, probe_tasks, tick>>

\* remove_pool: close() returned; record_pool_removed; Ok
RemoveClose(c) ==
    /\ mpc[c] = "remove_close"
    /\ objs' = [objs EXCEPT ![pool[c]] = ClosedObject(@)]
    /\ pool_metrics' = Remove(pool_metrics, target[c])
    /\ removed' = IF target[c] \in DOMAIN local_pools
                  THEN removed    \* a create_pool overtook this removal
                  ELSE removed \cup {target[c]}
    /\ mpc' = [mpc EXCEPT ![c] = "done"]
    /\ outcome' = [outcome EXCEPT ![c] = "ok"]
    /\ pool' = [pool EXCEPT ![c] = 0]
    /\ UNCHANGED <<local_pools, pool_configs, pool_health_status,
                   failover_strategy, hostUp, op, target, arg, error, mcalls,
                   flips>>
    /\ UNCHANGED <<poolVars, alertVars, unitVars, reply, probe_tasks, tick>>

\* execute_query / execute_non_query / execute_batch is called:
\* get_pool_with_fallback, then the pool's operation is awaited
Dispatch(c, id) ==
    /\ \E sqlOk \in BOOLEAN, k \in DispatchKinds :
          LET o == get_pool_with_fallback(local_pools, pool_health_status,
                                          failover_strategy, id)
          IN /\ target' = [target EXCEPT ![c] = id]
             /\ op' = [op EXCEPT ![c] = k]
             /\ arg' = [arg EXCEPT ![c] = [config |-> NoArg.config, sqlOk |-> sqlOk]]
             /\ pool' = [pool EXCEPT ![c] = o]
             /\ IF o = 0
                THEN /\ mpc' = [mpc EXCEPT ![c] = "done"]
                     /\ outcome' = [outcome EXCEPT ![c] = "Runtime"]
                ELSE /\ mpc' = [mpc EXCEPT ![c] = "exec"]
                     /\ outcome' = [outcome EXCEPT ![c] = "none"]
    /\ error' = [error EXCEPT ![c] = "none"]
    /\ UNCHANGED <<local_pools, pool_configs, pool_health_status, pool_metrics,
                   failover_strategy, objs, hostUp, removed, flips>>
    /\ UNCHANGED <<poolVars, alertVars, unitVars, reply, probe_tasks, tick>>

CallDispatch(c) ==
    /\ Free(c)
    /\ \E id \in DispatchIds : Dispatch(c, id)
    /\ mcalls' = mcalls + 1

\* the id has its config stored and no pool that serves it: what a rebuild
\* that failed leaves behind
AwaitsRecovery(id) ==
    /\ id \in DOMAIN pool_configs
    /\ ~(id \in DOMAIN local_pools /\ is_pool_healthy(pool_health_status, id))

\* the user keeps dispatching to an id for as long as it has not recovered
Retry(c) ==
    /\ mpc[c] \in {"idle", "done"}
    /\ \E id \in PoolIds : AwaitsRecovery(id) /\ Dispatch(c, id)
    /\ UNCHANGED mcalls

\* execute_batch: the pool's execute_batch returned; Ok(results) unless the
\* borrow failed; nothing is recorded
ExecBatch(c) ==
    /\ mpc[c] = "exec"
    /\ op[c] = "execute_batch"
    /\ LET r == PoolExec(objs[pool[c]], TRUE, hostUp)
       IN /\ objs' = [objs EXCEPT ![pool[c]] = r.obj]
          /\ error' = [error EXCEPT ![c] = r.error]
          /\ outcome' = [outcome EXCEPT ![c] =
                IF r.error = "none" THEN "ok" ELSE r.error]
    /\ mpc' = [mpc EXCEPT ![c] = "done"]
    /\ pool' = [pool EXCEPT ![c] = 0]
    /\ UNCHANGED <<local_pools, pool_configs, pool_health_status, pool_metrics,
                   failover_strategy, hostUp, op, target, arg, removed, mcalls,
                   flips>>
    /\ UNCHANGED <<poolVars, alertVars, unitVars, reply, probe_tasks, tick>>

\* no error is handled as a DbPoolError::Query
NoClass(e) == FALSE

\* handle_query_failure: the error matches the DbPoolError::Query arm
QueryClass(e) == e = "Query"

\* execute_query / execute_non_query: the pool's operation returned.  Ok:
\* record_query_success.  Err: record_query_error and handle_query_failure,
\* up to recreate_pool's first await: a Connection error marks the pool
\* unhealthy and, if a config is stored, takes the old pool out of the map;
\* a Query error is recorded once more.
Exec(c) ==
    /\ mpc[c] = "exec"
    /\ op[c] # "execute_batch"
    /\ LET r == PoolExec(objs[pool[c]], arg[c].sqlOk, hostUp)
           id == target[c]
       IN /\ objs' = [objs EXCEPT ![pool[c]] = r.obj]
          /\ error' = [error EXCEPT ![c] = r.error]
          /\ CASE r.error = "none" ->
                   /\ pool_metrics' = record_query_success(pool_metrics, id)
                   /\ mpc' = [mpc EXCEPT ![c] = "done"]
                   /\ outcome' = [outcome EXCEPT ![c] = "ok"]
                   /\ pool' = [pool EXCEPT ![c] = 0]
                   /\ UNCHANGED <<pool_health_status, local_pools, arg>>
               [] QueryClass(r.error) ->
                   /\ pool_metrics' = record_query_error(
                                         record_query_error(pool_metrics, id), id)
                   /\ mpc' = [mpc EXCEPT ![c] = "done"]
                   /\ outcome' = [outcome EXCEPT ![c] = "Query"]
                   /\ pool' = [pool EXCEPT ![c] = 0]
                   /\ UNCHANGED <<pool_health_status, local_pools, arg>>
               [] OTHER ->
                   /\ pool_metrics' = record_query_error(pool_metrics, id)
                   /\ pool_health_status' = Insert(pool_health_status, id, FALSE)
                   /\ IF id \in DOMAIN pool_configs
                      THEN /\ local_pools' = Remove(local_pools, id)
                           /\ pool' = [pool EXCEPT ![c] =
                                 IF id \in DOMAIN local_pools THEN local_pools[id] ELSE 0]
                           /\ mpc' = [mpc EXCEPT ![c] = "rebuild"]
                           /\ arg' = [arg EXCEPT ![c].config = pool_configs[id]]
                           /\ UNCHANGED outcome
                      ELSE /\ mpc' = [mpc EXCEPT ![c] = "done"]
                           /\ outcome' = [outcome EXCEPT ![c] = r.error]
                           /\ pool' = [pool EXCEPT ![c] = 0]
                           /\ UNCHANGED <<local_pools, arg>>
    /\ UNCHANGED <<pool_configs, failover_strategy, hostUp, op, target,
                   removed, mcalls, flips>>
    /\ UNCHANGED <<poolVars, alertVars, unitVars, reply, probe_tasks, tick>>

\* recreate_pool: the old pool is closed, DatabaseFactory::create_pool
\* returns; Ok: the new pool is stored and marked healthy and the dispatch
\* returns the query's error; Err: `?` makes the dispatch return that error
Rebuild(c) ==
    /\ mpc[c] = "rebuild"
    /\ LET id == target[c]
           cfg == arg[c].config
           closedOld == IF pool[c] = 0 THEN objs
                        ELSE [objs EXCEPT ![pool[c]] = ClosedObject(@)]
       IN IF CanConstruct(cfg, hostUp)
          THEN /\ objs' = Append(closedOld, NewPoolObject(cfg))
               /\ local_pools' = Insert(local_pools, id, Len(objs) + 1)
               /\ pool_health_status' = Insert(pool_health_status, id, TRUE)
               /\ outcome' = [outcome EXCEPT ![c] = error[c]]
          ELSE /\ objs' = closedOld
               /\ outcome' = [outcome EXCEPT ![c] = "ConnectionFailed"]
               /\ UNCHANGED <<local_pools, pool_health_status>>
    /\ mpc' = [mpc EXCEPT ![c] = "done"]
    /\ pool' = [pool EXCEPT ![c] = 0]
    /\ UNCHANGED <<pool_configs, pool_metrics, failover_strategy, hostUp, op,
                   target, arg, error, removed, mcalls, flips>>
    /\ UNCHANGED <<poolVars, alertVars, unitVars, reply, probe_tasks, tick>>

\* set_failover_strategy
SetFailoverStrategy ==
    /\ mcalls < MaxMgrCalls
    /\ \E st \in Strategies \ {failover_strategy} : failover_strategy' = st
    /\ mcalls' = mcalls + 1
    /\ UNCHANGED <<local_pools, pool_configs, pool_health_status, pool_metrics,
                   objs, hostUp, mpc, op, target, arg, pool, error, outcome,
                   removed, flips>>
    /\ UNCHANGED <<poolVars, alertVars, unitVars, reply, probe_tasks, tick>>

\* a database host goes away: the sessions open to it stop answering
HostDown ==
    /\ flips < MaxFlips
    /\ \E h \in Hosts :
          /\ hostUp[h]
          /\ hostUp' = [hostUp EXCEPT ![h] = FALSE]
          /\ objs' = [i \in 1..Len(objs) |->
                IF objs[i].config.host = h
                THEN [objs[i] EXCEPT !.dead = @ + objs[i].idle, !.idle = 0]
                ELSE objs[i]]
    /\ flips' = flips + 1
    /\ UNCHANGED <<local_pools, pool_configs, pool_health_status, pool_metrics,
                   failover_strategy, mpc, op, target, arg, pool, error,
                   outcome, removed, mcalls>>
    /\ UNCHANGED <<poolVars, alertVars, unitVars, reply, probe_tasks, tick>>

\* the host is back
HostUp ==
    /\ \E h \in Hosts :
          /\ ~hostUp[h]
          /\ hostUp' = [hostUp EXCEPT ![h] = TRUE]
    /\ UNCHANGED <<local_pools, pool_configs, pool_health_status, pool_metrics,
                   failover_strategy, objs, mpc, op, target, arg, pool, error,
                   outcome, removed, mcalls, flips>>
    /\ UNCHANGED <<poolVars, alertVars, unitVars, reply, probe_tasks, tick>>

\* one turn of a task spawned by start_monitoring: interval.tick() returns and
\* the loop body, which is empty, runs; the task has no exit
ProbeTick(id) ==
    /\ probe_tasks[id] > 0
    /\ tick' = 1 - tick
    /\ UNCHANGED <<local_pools, pool_configs, pool_health_status, pool_metrics,
                   failover_strategy, objs, hostUp, mpc, op, target, arg, pool,
                   error, outcome, reply, removed, mcalls, flips, probe_tasks>>
    /\ UNCHANGED <<poolVars, alertVars, unitVars>>

\* DistributedPoolManager::get_pool_status: Err unless the id is in the
\* pool map
get_pool_status(pools, id) ==
    IF id \in DOMAIN pools
    THEN [outcome |-> "ok", reply |-> "status"]
    ELSE [outcome |-> "Runtime", reply |-> "none"]

\* MetricsCollector::get_pool_metrics: Err unless the id has a metrics entry
get_pool_metrics(metrics, id) ==
    IF id \in DOMAIN metrics
    THEN [outcome |-> "ok", reply |-> "metrics"]
    ELSE [outcome |-> "Runtime", reply |-> "none"]

\* HealthMonitor::check_pool_health: Ok(the entry, or false if there is none)
check_pool_health(health, id) ==
    [outcome |-> "ok",
     reply |-> IF id \in DOMAIN health /\ health[id] THEN "true" ELSE "false"]

Observers == {"get_pool_status", "get_pool_metrics", "health_check"}

\* get_pool_status / get_pool_metrics / health_check: one step each
CallObserve(c) ==
    /\ Free(c)
    /\ \E id \in PoolIds, o \in Observers :
          LET r == CASE o = "get_pool_status" -> get_pool_status(local_pools, id)
                     [] o = "get_pool_metrics" -> get_pool_metrics(pool_metrics, id)
                     [] OTHER -> check_pool_health(pool_health_status, id)
          IN /\ op' = [op EXCEPT ![c] = o]
             /\ target' = [target EXCEPT ![c] = id]
             /\ outcome' = [outcome EXCEPT ![c] = r.outcome]
             /\ reply' = [reply EXCEPT ![c] = r.reply]
    /\ mpc' = [mpc EXCEPT ![c] = "done"]
    /\ arg' = [arg EXCEPT ![c] = NoArg]
    /\ pool' = [pool EXCEPT ![c] = 0]
    /\ error' = [error EXCEPT ![c] = "none"]
    /\ mcalls' = mcalls + 1
    /\ UNCHANGED <<local_pools, pool_configs, pool_health_status, pool_metrics,
                   failover_strategy, objs, hostUp, removed, flips>>
    /\ UNCHANGED <<poolVars, alertVars, unitVars, probe_tasks, tick>>

MgrNext ==
    \/ \E c \in Callers : CallCreatePool(c)
    \/ \E c \in Callers : Construct(c)
    \/ \E c \in Callers : Register(c)
    \/ \E c \in Callers : CallRemovePool(c)
    \/ \E c \in Callers : RemoveConfig(c)
    \/ \E c \in Callers : RemoveClose(c)
    \/ \E c \in Callers : CallDispatch(c)
    \/ \E c \in Callers : ExecBatch(c)
    \/ \E c \in Callers : Exec(c)
    \/ \E c \in Callers : Rebuild(c)
    \/ \E c \in Callers : CallObserve(c)
    \/ SetFailoverStrategy
    \/ HostDown
    \/ HostUp


Quiescent == \A c \in Callers : mpc[c] \in {"idle", "done"}

\* C8: whenever no manager call is in progress, a pool id is a key of the
\* pool map if and only if it is a key of the config map.
C8_PoolsMatchConfigs ==
    Quiescent => DOMAIN local_pools = DOMAIN pool_configs

\* C9: a remove_pool(id) that follows a successful remove_pool(id), with no
\* create_pool(id) completed in between, returns the not-found error and
\* leaves the pool, config, health and metrics maps as they were.
C9_SecondRemoveChangesNothing ==
    [][\A c \in Callers :
         (CallRemovePool(c) /\ target'[c] \in removed) =>
             /\ outcome'[c] = "Runtime"
             /\ local_pools' = local_pools
             /\ pool_configs' = pool_configs
             /\ pool_health_status' = pool_health_status
             /\ pool_metrics' = pool_metrics]_vars

\* C10: in the state in which create_pool(id, config) returns Ok, the pool
\* map and the metrics map hold id, and the pool's status is
\* total = min_connections, idle = min_connections, active = 0.
C10_StatusAfterCreate ==
    [][\A c \in Callers :
         (/\ op[c] = "create_pool"
          /\ mpc[c] # "done"
          /\ mpc'[c] = "done"
          /\ outcome'[c] = "ok") =>
             /\ target[c] \in DOMAIN local_pools'
             /\ target[c] \in DOMAIN pool_metrics'
             /\ get_status(objs'[local_pools'[target[c]]]) =
                    [total_connections |-> arg[c].config.min_connections,
                     idle_connections |-> arg[c].config.min_connections,
                     active_connections |-> 0]]_vars

\* C11: get_pool_status, get_pool_metrics and health_check of an id that is
\* in neither the pool map nor the config map return an error.
C11_UnregisteredIsError ==
    [][\A c \in Callers :
         (/\ CallObserve(c)
          /\ target'[c] \notin DOMAIN local_pools \cup DOMAIN pool_configs) =>
             outcome'[c] # "ok"]_vars

\* the ids whose pool is registered and reported healthy
HealthyPools ==
    {id \in DOMAIN local_pools : is_pool_healthy(pool_health_status, id)}

\* C12: whatever the policy, a dispatch issued while no registered pool is
\* reported healthy fails and no pool executes it, and a dispatch issued
\* while some registered pool is reported healthy is routed to a healthy
\* pool.
C12_FailoverMonotonicity ==
    [][\A c \in Callers :
         CallDispatch(c) =>
             IF HealthyPools = {}
             THEN pool'[c] = 0 /\ outcome'[c] = "Runtime"
             ELSE \E id \in HealthyPools : pool'[c] = local_pools[id]]_vars

\* C13: under ActiveStandby a dispatch to an id that is missing or not
\* reported healthy is served by the backup pool if the id is the policy's
\* primary and the backup is registered, and fails otherwise.
C13_StandbyOnlyForPrimary ==
    [][\A c \in Callers :
         (/\ CallDispatch(c)
          /\ failover_strategy.kind = "ActiveStandby"
          /\ target'[c] \notin HealthyPools) =>
             IF /\ target'[c] = failover_strategy.primary
                /\ failover_strategy.backup \in DOMAIN local_pools
             THEN pool'[c] = local_pools[failover_strategy.backup]
             ELSE pool'[c] = 0 /\ outcome'[c] = "Runtime"]_vars

\* C14: whatever the policy, a dispatch to an id whose pool is registered
\* and reported healthy is served by that pool; under LocalOnly a dispatch
\* to any other id fails, and no pool is handed the statement.
C14_NamedPoolFirst ==
    [][\A c \in Callers :
         CallDispatch(c) =>
             /\ target'[c] \in HealthyPools =>
                   /\ pool'[c] = local_pools[target'[c]]
                   /\ mpc'[c] = "exec"
             /\ (failover_strategy.kind = "LocalOnly"
                   /\ target'[c] \notin HealthyPools) =>
                   /\ pool'[c] = 0
                   /\ mpc'[c] = "done"
                   /\ outcome'[c] = "Runtime"
                   /\ objs' = objs]_vars

\* one dispatch to a registered healthy id is being served by that pool
\* while the policy is not LocalOnly, and another one, to an id with no
\* healthy pool, has failed
C14_Witness ==
    \E c, d \in Callers :
        /\ failover_strategy.kind # "LocalOnly"
        /\ mpc[c] = "exec"
        /\ target[c] \in HealthyPools
        /\ pool[c] = local_pools[target[c]]
        /\ mpc[d] = "done"
        /\ op[d] \in DispatchKinds
        /\ target[d] \notin DOMAIN local_pools
        /\ outcome[d] = "Runtime"

\* the first pool of a list that is registered and reported healthy, 0 if
\* there is none
FirstHealthy(list) ==
    LET ok == {i \in 1..Len(list) : list[i] \in HealthyPools}
    IN IF ok = {} THEN 0
       ELSE local_pools[list[CHOOSE i \in ok : \A j \in ok : i <= j]]

\* C15: under LoadBalanced a dispatch to an id that is unregistered or not
\* reported healthy is served by the first pool of the policy's list that is
\* registered and healthy, and fails if the list has none.
C15_LoadBalancedFirstHealthy ==
    [][\A c \in Callers :
         (/\ CallDispatch(c)
          /\ failover_strategy.kind = "LoadBalanced"
          /\ target'[c] \notin HealthyPools) =>
             /\ pool'[c] = FirstHealthy(failover_strategy.pools)
             /\ FirstHealthy(failover_strategy.pools) = 0 =>
                   (mpc'[c] = "done" /\ outcome'[c] = "Runtime")
             /\ FirstHealthy(failover_strategy.pools) # 0 => mpc'[c] = "exec"]_vars

\* under LoadBalanced with both listed pools registered and healthy, a
\* dispatch to an unregistered id is being served by the pool listed first
C15_Witness ==
    \E c \in Callers :
        /\ failover_strategy.kind = "LoadBalanced"
        /\ \A i \in 1..Len(failover_strategy.pools) :
              failover_strategy.pools[i] \in HealthyPools
        /\ Len(failover_strategy.pools) >= 2
        /\ mpc[c] = "exec"
        /\ target[c] \notin DOMAIN local_pools
        /\ pool[c] = local_pools[failover_strategy.pools[1]]

\* C16: when the pool's execution of an execute_query / execute_non_query
\* dispatched to a registered id returns, that id's total_queries grows by
\* exactly one, and its total_errors by one if the execution failed and by
\* zero if it succeeded.
C16_OneCountPerQuery ==
    [][\A c \in Callers :
         (/\ Exec(c)
          /\ target[c] \in DOMAIN pool_metrics
          /\ target[c] \in DOMAIN pool_metrics') =>
             /\ pool_metrics'[target[c]].total_queries =
                    pool_metrics[target[c]].total_queries + 1
             /\ pool_metrics'[target[c]].total_errors =
                    pool_metrics[target[c]].total_errors +
                       (IF error'[c] = "none" THEN 0 ELSE 1)]_vars

\* C17: a dispatched execute_query / execute_non_query whose execution by
\* the pool failed returns that error, whatever failure handling did.
C17_OriginalErrorReturned ==
    \A c \in Callers :
        (/\ mpc[c] = "done"
         /\ op[c] \in {"execute_query", "execute_non_query"}
         /\ error[c] # "none") => outcome[c] = error[c]

ConnectionErrors == {"PoolExhausted", "ConnectionFailed"}

\* another caller's dispatch to p1 has returned after the pool failed with a
\* connection error, p1's host is unreachable, p2 is registered and its host
\* reachable
P1FailedOver(c) ==
    /\ \E d \in Callers \ {c} :
          /\ mpc[d] = "done"
          /\ op[d] \in {"execute_query", "execute_non_query"}
          /\ target[d] = "p1"
          /\ error[d] \in ConnectionErrors
    /\ "p1" \in DOMAIN pool_configs
    /\ ~hostUp[pool_configs["p1"].host]
    /\ "p2" \in DOMAIN local_pools
    /\ hostUp[objs[local_pools["p2"]].config.host]

\* C18: under ActiveStandby{p1, p2} with p2 registered and reachable, once
\* a dispatch to p1 has failed with a connection error and while p1's host
\* is unreachable, a dispatch to p1 is served by p2.
C18_LaterDispatchesUseBackup ==
    [][\A c \in Callers :
         (/\ CallDispatch(c)
          /\ target'[c] = "p1"
          /\ failover_strategy = ActiveStandbyP1P2
          /\ P1FailedOver(c)) =>
             pool'[c] = local_pools["p2"]]_vars

\* the dispatch of caller c, issued for id a, runs on the pool registered
\* under another id b
RoutedTo(c, a, b) ==
    /\ mpc[c] = "exec"
    /\ target[c] = a
    /\ b # a
    /\ b \in DOMAIN local_pools
    /\ local_pools[b] = pool[c]

\* C25: when the dispatch for id a ran on the pool of another id b, the
\* query is counted in the metrics of b and not in those of a, and after a
\* connection error it is b that is marked unhealthy, the health entry of a
\* staying as it was.
C25_RecordedUnderActualPool ==
    [][\A c \in Callers : \A a \in PoolIds : \A b \in PoolIds :
         (Exec(c) /\ RoutedTo(c, a, b)) =>
             /\ b \in DOMAIN pool_metrics =>
                   pool_metrics'[b].total_queries =
                       pool_metrics[b].total_queries + 1
             /\ a \in DOMAIN pool_metrics => pool_metrics'[a] = pool_metrics[a]
             /\ error'[c] \in ConnectionErrors =>
                   /\ ~is_pool_healthy(pool_health_status', b)
                   /\ is_pool_healthy(pool_health_status', a)
                         = is_pool_healthy(pool_health_status, a)]_vars

\* C26: a dispatched query that fails with a query-class error leaves the
\* health entries, the pool map and the config map as they were.
C26_QueryErrorChangesNoHealth ==
    [][\A c \in Callers :
         (Exec(c) /\ error'[c] = "Query") =>
             UNCHANGED <<pool_health_status, local_pools, pool_configs>>]_vars

\* a dispatch to a registered, healthy pool has returned a query error
C26_Witness ==
    \E c \in Callers :
        /\ mpc[c] = "done"
        /\ op[c] \in {"execute_query", "execute_non_query"}
        /\ error[c] = "Query"
        /\ outcome[c] = "Query"
        /\ target[c] \in DOMAIN local_pools
        /\ is_pool_healthy(pool_health_status, target[c])

\* caller c's failure handling has marked the pool and not yet registered
\* the new one
Rebuilding(c) == mpc[c] = "rebuild"

\* C27: a connection error marks the pool unhealthy in the step that starts
\* the rebuild; while the rebuild is under way the pool is not reported
\* healthy; the rebuild closes the old pool and registers under the same id
\* a new pool built from the config stored for the id.
C27_UnhealthyUntilRebuilt ==
    /\ [](\A c \in Callers :
            Rebuilding(c) => ~is_pool_healthy(pool_health_status, target[c]))
    /\ [][\A c \in Callers :
            /\ (Exec(c) /\ error'[c] \in ConnectionErrors) =>
                  /\ ~is_pool_healthy(pool_health_status', target[c])
                  /\ target[c] \in DOMAIN pool_configs => Rebuilding(c)'
            /\ (Rebuild(c) /\ outcome'[c] # "ConnectionFailed") =>
                  /\ pool[c] # 0 => objs'[pool[c]].closed
                  /\ target[c] \in DOMAIN local_pools'
                  /\ objs'[local_pools'[target[c]]] =
                        NewPoolObject(pool_configs[target[c]])]_vars

\* the four maps of the manager
\* the caller is suspended in an await on a pool: the pool being built, a
\* pool operation, the rebuild's close and build, remove_pool's close
AtSuspension(c) == mpc[c] \in {"construct", "exec", "rebuild", "remove_close"}

\* the caller holds the guard that pool_configs.get(id) returned
HoldsConfigGuard(c) == Rebuilding(c) /\ ConfigGuardHeld(target[c])

\* C35: no task holds a lock or a guard on one of the manager's maps while
\* it is suspended at a suspension point (here: a pool rebuild)
C35_NoGuardWhileSuspended ==
    \A c \in Callers : AtSuspension(c) => ~HoldsConfigGuard(c)

\* the backend of a registered pool
Backend(id) == objs[local_pools[id]].config.host

\* the monitor reports id healthy while its backend is away
HealthyButUnreachable(id) ==
    /\ id \in DOMAIN local_pools
    /\ is_pool_healthy(pool_health_status, id)
    /\ ~hostUp[Backend(id)]

\* C33: the background probe runs health_check periodically, so a pool
\* reported healthy whose backend has become unreachable is eventually
\* reported unhealthy, even when no query is dispatched to it (or its backend
\* is back before the probe saw it away)
C33_ProbeReportsUnreachable ==
    \A id \in PoolIds :
        HealthyButUnreachable(id) ~> ~HealthyButUnreachable(id)

\* C34: after remove_pool(id), hence stop_monitoring(id), has returned, no
\* probe task started by start_monitoring(id) is running any more
C34_NoProbeAfterStop ==
    \A id \in removed : probe_tasks[id] = 0

\* DistributedPoolManager::list_pools: the keys of the pool map
list_pools == DOMAIN local_pools

\* C37: once remove_pool(id) has returned ok, id is absent from list_pools
\* and has no health entry until a later create_pool(id), also when a
\* dispatch on id that was in flight during the removal fails with a
\* connection error
C37_RemovedStaysAbsent ==
    \A id \in removed :
        /\ id \notin list_pools
        /\ id \notin DOMAIN pool_health_status

\* the pool object is a value of the pool map
InPoolMap(i) == \E id \in DOMAIN local_pools : local_pools[id] = i

\* a call in progress holds the pool object
HeldByCall(i) == \E c \in Callers : pool[c] = i

\* C38: every pool object the manager constructed is, once the call that
\* constructed it has finished, registered in the pool map or closed
C38_RegisteredOrClosed ==
    \A i \in 1..Len(objs) :
        ~HeldByCall(i) => (InPoolMap(i) \/ objs[i].closed)

\* C40: after a connection failure has triggered a rebuild of pool id, if
\* the backend is or becomes reachable and queries keep being dispatched,
\* id is eventually registered and reported healthy again without
\* create_pool, also when the first rebuild failed
C40_RebuiltEventually ==
    \A id \in PoolIds :
        (\E c \in Callers : Rebuilding(c) /\ target[c] = id)
            ~> (id \in DOMAIN local_pools
                  /\ is_pool_healthy(pool_health_status, id))

Registry == <<local_pools, pool_configs, pool_health_status, pool_metrics>>

\* C23: a step of create_pool changes the pool map, the config map, the
\* health entries or the metrics entries only when it is the step with
\* which the call returns Ok; a call that returns an error (validation or
\* construction) has changed none of them.
C23_FailedCreateChangesNothing ==
    [][\A c \in Callers :
         (CallCreatePool(c) \/ Construct(c) \/ Register(c)) =>
             \/ UNCHANGED Registry
             \/ (mpc'[c] = "done" /\ outcome'[c] = "ok")]_vars

\* a create_pool for an id that is registered has returned the error of a
\* pool that could not be built, and another the error of the validation
C23_Witness ==
    \E c, d \in Callers :
        /\ mpc[c] = "done" /\ op[c] = "create_pool"
        /\ outcome[c] = "ConnectionFailed"
        /\ target[c] \in DOMAIN local_pools
        /\ mpc[d] = "done" /\ op[d] = "create_pool"
        /\ outcome[d] = "Config"

\* a create_pool with min_connections >= 1 has just returned Ok and the
\* pool it stored is still the one registered under the id
C10_Witness ==
    \E c \in Callers :
        /\ op[c] = "create_pool"
        /\ mpc[c] = "done"
        /\ outcome[c] = "ok"
        /\ arg[c].config.min_connections >= 1
        /\ target[c] \in DOMAIN local_pools
        /\ target[c] \in DOMAIN pool_metrics
        /\ objs[local_pools[target[c]]].config = arg[c].config
        /\ get_status(objs[local_pools[target[c]]]).idle_connections =
               arg[c].config.min_connections

\* one pool under concurrent callers
Init == PoolInit /\ AlertInit /\ MgrInit /\ UnitIdle
Next == PoolNext
Spec == Init /\ [][Next]_vars

\* one alert manager under concurrent evaluators
InitAlert == PoolInitWith(1, 1) /\ AlertInit /\ MgrInit /\ UnitIdle
NextAlert == AlertNext
SpecAlert == InitAlert /\ [][NextAlert]_vars

\* one pool manager under concurrent callers
InitMgr == PoolInitWith(1, 1) /\ AlertInit /\ MgrInit /\ UnitIdle
NextMgr == MgrNext
SpecMgr == InitMgr /\ [][NextMgr]_vars

\* dispatches to a manager that holds p1 and p2 under ActiveStandby
InitFailover == PoolInitWith(1, 1) /\ AlertInit /\ MgrInitFailover /\ UnitIdle
NextFailover ==
    \/ \E c \in Callers : CallDispatch(c)
    \/ \E c \in Callers : ExecBatch(c)
    \/ \E c \in Callers : Exec(c)
    \/ \E c \in Callers : Rebuild(c)
    \/ HostDown
    \/ HostUp
SpecFailover == InitFailover /\ [][NextFailover]_vars

\* the registered pools left alone: the probe tasks run, the hosts come and go,
\* the health is read, nothing is dispatched
ProbeStep == \E id \in PoolIds : ProbeTick(id)
NextProbe ==
    \/ ProbeStep
    \/ \E c \in Callers : CallObserve(c)
    \/ HostDown
    \/ HostUp
SpecProbe == InitFailover /\ [][NextProbe]_vars /\ WF_vars(ProbeStep)

\* two registered pools under LocalOnly; the calls in progress run on, a
\* host that is away comes back, and an id that has not recovered keeps
\* being dispatched to
InitRecover == PoolInitWith(1, 1) /\ AlertInit /\ MgrInitLocal /\ UnitIdle
CallStep == \E c \in Callers : ExecBatch(c) \/ Exec(c) \/ Rebuild(c)
RetryStep == \E c \in Callers : Retry(c)
NextRecover ==
    \/ \E c \in Callers : CallDispatch(c)
    \/ CallStep
    \/ RetryStep
    \/ HostDown
    \/ HostUp
SpecRecover ==
    InitRecover /\ [][NextRecover]_vars
        /\ WF_vars(CallStep) /\ WF_vars(RetryStep) /\ WF_vars(HostUp)

\* a pool that starts with MaxConn sessions and has room for one more:
InitRoom == PoolInitWith(MaxConn, MaxConn + 1) /\ AlertInit /\ MgrInit /\ UnitIdle
\* with more permits than tasks no acquire can time out
NextRoom ==
    \/ \E t \in Tasks : Start(t)
    \/ \E t \in Tasks : Acquire(t)
    \/ \E t \in Tasks : Pop(t)
    \/ \E t \in Tasks : CheckTotal(t)
    \/ \E t \in Tasks : Create(t)
    \/ \E t \in Tasks : Statement(t)
    \/ \E t \in Tasks : BatchOp(t)
    \/ \E t \in Tasks : Begin(t)
    \/ \E t \in Tasks : TxnOp(t)
    \/ \E t \in Tasks : EndTxn(t)
    \/ \E t \in Tasks : Return(t)
    \/ Close
    \/ BackendDown
    \/ BackendUp
SpecRoom == InitRoom /\ [][NextRoom]_vars

\* a step of a call that is under way (the runtime polls every task)
TaskStep ==
    \E t \in Tasks :
        \/ Acquire(t) \/ AcquireTimeout(t) \/ Pop(t) \/ CheckTotal(t)
        \/ Create(t) \/ Statement(t) \/ BatchOp(t) \/ Begin(t) \/ TxnOp(t)
        \/ EndTxn(t) \/ Return(t)

\* a pool of one session: a call under way runs to its end and the backend
\* comes back; nobody has to call the pool or to close it
InitTopUp == PoolInitWith(1, 1) /\ AlertInit /\ MgrInit /\ UnitIdle
NextTopUp == PoolNext
SpecTopUp ==
    InitTopUp /\ [][NextTopUp]_vars /\ WF_vars(TaskStep) /\ WF_vars(BackendUp)

\* validate_config applied to one configuration
InitConfig == PoolInitWith(1, 1) /\ AlertInit /\ MgrInit /\ CfgInit /\ RingInit /\ SessInit
NextConfig == Validate
SpecConfig == InitConfig /\ [][NextConfig]_vars

\* record_query_metrics called over and over for one pool
InitRing == PoolInitWith(1, 1) /\ AlertInit /\ MgrInit /\ CfgIdle /\ RingInit /\ SessInit
NextRing == RecordQueryMetrics
SpecRing == InitRing /\ [][NextRing]_vars

\* get_pool_metrics called on one latency window
InitP99 == PoolInitWith(1, 1) /\ AlertInit /\ MgrInit /\ CfgIdle /\ P99Init /\ SessInit
NextP99 == GetPoolMetrics
SpecP99 == InitP99 /\ [][NextP99]_vars

\* one session and the calls made on it
InitSession == PoolInitWith(1, 1) /\ AlertInit /\ MgrInit /\ CfgIdle /\ RingInit /\ SessInit
NextSession == SessNext
SpecSession == InitSession /\ [][NextSession]_vars

====
